---- MODULE Spec2Model ----
(***************************************************************************)
(* Model of src/HTMLextraction.py: block collection, scoring, threshold    *)
(* calibration, the de-duplication passes, the JSONL and text output of    *)
(* the HTML text extractor, and the whole run of main.                     *)
(* The tool loop of src/agent.py (run_conversation) is modelled in a       *)
(* section of its own.                                                     *)
(*                                                                         *)
(* Texts are sequences of one-character strings.  Scores are fixed-point   *)
(* numbers in units of 1/10000, and so are cosine similarities.             *)
(* Python lists of Block objects are modelled as a store `blocks` (the     *)
(* objects, mutated in place) plus sequences of references (1-based        *)
(* indices into the store), so that a tag set on a dropped block is seen   *)
(* through every list that holds it.                                       *)
(***************************************************************************)
EXTENDS Integers, Sequences, FiniteSets, TLC

VARIABLES
    pc,         \* control position of the function being run
    doc,        \* collect_blocks: the parsed document (soup)
    ci,         \* collect_blocks: number of descendants already visited
    cpos,       \* collect_blocks: the local counter `pos`
    blocks,     \* the Block objects, in creation order
    scores,     \* _auto_threshold: the local sorted list `scores`
    thr,        \* main: the local `thr`
    filtered,   \* main: the list `filtered` (references into blocks)
    fi,         \* dedup_fingerprint: loop position
    seen,       \* dedup_fingerprint: the set `seen`
    keep,       \* dedup_fingerprint / dedup_semantic: the list `keep`
    dedup,      \* main: the list `dedup` (references into blocks)
    sim,        \* dedup_semantic: cosine similarity of embs[i], embs[j]
    si,         \* dedup_semantic: loop position
    idxs,       \* dedup_semantic: the list `idxs`
    lines,      \* _dedup_keep_longest: the argument `lines`
    items,      \* _dedup_keep_longest: the sorted list `items`
    ki,         \* _dedup_keep_longest: loop position in items
    kept_raw,   \* _dedup_keep_longest: the dict `kept_raw`
    canon,      \* _dedup_keep_longest: the list `canon`
    out,        \* _dedup_keep_longest: the returned list
    embeddings, \* main: args.embeddings
    exc,        \* the exception that ended the run, None while there is none
    jsonl,      \* the file args.output_jsonl (src of jsonl_to_txt)
    ji,         \* jsonl_to_txt: number of lines of src already read
    paragraphs, \* jsonl_to_txt: the list `paragraphs`
    txt,        \* the file args.output_txt (dst of jsonl_to_txt)
    calls,      \* a function called on its own: number of calls made
    arg,        \* a function called on its own: the argument
    ret,        \* a function called on its own: the value returned
    messages,   \* run_conversation: the list `messages`
    tool_loop_active, \* run_conversation: the local `tool_loop_active`
    assistant_reply,  \* run_conversation: the local `assistant_reply`
    visited_articles  \* WebBrowsingAgent: len(self.visited_articles)

vars == <<pc, doc, ci, cpos, blocks, scores, thr, filtered, fi, seen, keep,
          dedup, sim, si, idxs, lines, items, ki, kept_raw, canon, out,
          embeddings, exc, jsonl, ji, paragraphs, txt, calls, arg, ret,
          messages, tool_loop_active, assistant_reply, visited_articles>>

collectVars == <<doc, ci, cpos>>
thrVars     == <<scores, thr, filtered>>
fpVars      == <<fi, seen>>
semVars     == <<sim, si, idxs>>
klVars      == <<lines, items, ki, kept_raw, canon, out>>
mainVars    == <<embeddings, jsonl, txt>>
jtVars      == <<ji, paragraphs>>
callVars    == <<calls, arg, ret>>
agentVars   == <<messages, tool_loop_active, assistant_reply, visited_articles>>

\* The values of the variables a function does not use.
CollectIdle == doc = [body |-> TRUE, nodes |-> <<>>] /\ ci = 0 /\ cpos = 0
ThrIdle     == scores = <<>> /\ thr = 0
FpIdle      == fi = 0 /\ seen = {}
SemIdle     == sim = <<>> /\ si = 0 /\ idxs = <<>>
KlIdle      == /\ lines = <<>> /\ items = <<>> /\ ki = 0
               /\ kept_raw = <<>> /\ canon = <<>> /\ out = <<>>

None   == "None"

\* A file that has not been written, and a written file with its content.
NoFile        == [written |-> FALSE, content |-> <<>>]
File(content) == [written |-> TRUE, content |-> content]

MainIdle    == embeddings = FALSE /\ jsonl = NoFile /\ txt = NoFile
JtIdle      == ji = 0 /\ paragraphs = <<>>
CallIdle    == calls = 0 /\ arg = <<>> /\ ret = <<>>
AgentIdle   == /\ messages = <<>> /\ tool_loop_active = FALSE
               /\ assistant_reply = None /\ visited_articles = 0

(***************************************************************************)
(* Bounds of the model.                                                    *)
(***************************************************************************)
\* Total number of characters in a drawn list of texts.
MaxChars == 4

(***************************************************************************)
(* Characters and the regular-expression classes the code uses.            *)
(***************************************************************************)
\* The model's alphabet: two letters, one of them in both cases, one
\* punctuation mark of _RE_PUNCT and the space.
Chars == {"a", "A", "b", ".", " "}

\* \s
IsSpace(c) == c \in {" ", "\t", "\n"}

\* \w (restricted to the alphabet: letters, digits and the underscore)
IsWord(c) == c \in {"a", "b", "A", "B", "_", "0", "1"}

\* _RE_PUNCT = [,.!?;:]
IsPunct(c) == c \in {",", ".", "!", "?", ";", ":"}

\* str.lower() on one character
LowerChar(c) == CASE c = "A" -> "a" [] c = "B" -> "b" [] OTHER -> c

Lower(s) == [i \in 1..Len(s) |-> LowerChar(s[i])]

\* str.strip(): drop leading and trailing whitespace
RECURSIVE LStrip(_)
LStrip(s) == IF s # <<>> /\ IsSpace(Head(s)) THEN LStrip(Tail(s)) ELSE s

RECURSIVE RStrip(_)
RStrip(s) ==
    IF s # <<>> /\ IsSpace(s[Len(s)]) THEN RStrip(SubSeq(s, 1, Len(s) - 1)) ELSE s

Strip(s) == RStrip(LStrip(s))

\* re.sub(r"\s+", " ", s): every maximal whitespace run becomes one space
RECURSIVE SubWs(_)
SubWs(s) ==
    IF s = <<>> THEN <<>>
    ELSE IF IsSpace(Head(s))
         THEN <<" ">> \o SubWs(LStrip(s))
         ELSE <<Head(s)>> \o SubWs(Tail(s))

\* re.sub(r"\s+([,.!?;:])", r"\1", s): a whitespace run directly followed by
\* a punctuation mark is deleted
RECURSIVE SubWsBeforePunct(_)
SubWsBeforePunct(s) ==
    IF s = <<>> THEN <<>>
    ELSE IF IsSpace(Head(s))
         THEN LET rest == LStrip(s)
              IN  IF rest # <<>> /\ IsPunct(Head(rest))
                  THEN SubWsBeforePunct(rest)
                  ELSE <<Head(s)>> \o SubWsBeforePunct(Tail(s))
         ELSE <<Head(s)>> \o SubWsBeforePunct(Tail(s))

_collapse_wsOnlyRuns(text) == SubWs(Strip(text))
_collapse_ws(text) == SubWsBeforePunct(SubWs(Strip(text)))

\* re.sub(r"[^\w\s]", "", text.lower())
_fingerprintFirstOnly(text) ==
    LET low == Lower(text)
        bad == {i \in 1..Len(low) : ~(IsWord(low[i]) \/ IsSpace(low[i]))}
    IN  IF bad = {} THEN low
        ELSE LET k == CHOOSE i \in bad : \A j \in bad : i <= j
             IN  SubSeq(low, 1, k - 1) \o SubSeq(low, k + 1, Len(low))
_fingerprint(text) ==
    SelectSeq(Lower(text), LAMBDA c : IsWord(c) \/ IsSpace(c))

\* _RE_WS.sub(" ", _RE_PUNC.sub(" ", text.lower())).strip()
_normalize(text) ==
    LET low == Lower(text)
        sub == [i \in 1..Len(low) |->
                   IF IsWord(low[i]) \/ IsSpace(low[i]) THEN low[i] ELSE " "]
    IN  Strip(SubWs(sub))

\* Python's `a in b` on strings
IsSubstring(a, b) ==
    \E k \in 0..(Len(b) - Len(a)) : SubSeq(b, k + 1, k + Len(a)) = a

\* str.split(): the maximal runs of non-whitespace characters
RECURSIVE Split(_)
Split(s) ==
    LET t == LStrip(s)
        WordEnd[k \in 0..Len(t)] ==
            IF k < Len(t) /\ ~IsSpace(t[k + 1]) THEN WordEnd[k + 1] ELSE k
    IN  IF t = <<>> THEN <<>>
        ELSE <<SubSeq(t, 1, WordEnd[0])>> \o Split(SubSeq(t, WordEnd[0] + 1, Len(t)))

(***************************************************************************)
(* Scoring.  Real numbers are fixed-point integers in units of 1/Unit.     *)
(***************************************************************************)
Unit == 10000

MIN_THRESH     == 2500
MAX_THRESH     == 6000
TARGET_PERCENT == 70

BLOCK_TAGS == {"h1", "h2", "h3", "h4", "h5", "h6", "p", "li", "div"}

\* The words of _STOPWORDS that can be written in the model's alphabet.
_STOPWORDS == {<<"a">>}

\* exp(-1), exp(-2), ... in units of 1/Unit
RECURSIVE ExpNegInt(_)
ExpNegInt(q) == IF q = 0 THEN Unit ELSE (ExpNegInt(q - 1) * 3679) \div Unit

\* exp(-r/d) for 0 <= r < d: the alternating series, nine terms
ExpNegFrac(r, d) ==
    LET Term[k \in 0..8] == IF k = 0 THEN Unit ELSE (Term[k - 1] * r) \div (d * k)
        Sum[k \in 0..8]  ==
            (IF k = 0 THEN 0 ELSE Sum[k - 1])
            + (IF k % 2 = 0 THEN Term[k] ELSE 0 - Term[k])
    IN  Sum[8]

\* math.exp(-n/d) for n >= 0, d > 0
ExpNeg(n, d) == (ExpNegInt(n \div d) * ExpNegFrac(n % d, d)) \div Unit

\* 1 / (1 + math.exp(-k * (x - x0))) with x = xn/xd, k = kn/kd, x0 = x0n/x0d
_logistic(xn, xd, kn, kd, x0n, x0d) ==
    LET n == kn * (xn * x0d - x0n * xd)
        d == kd * xd * x0d
    IN  IF n >= 0
        THEN (Unit * Unit) \div (Unit + ExpNeg(n, d))
        ELSE (Unit * ExpNeg(0 - n, d)) \div (Unit + ExpNeg(0 - n, d))

CountIf(s, P(_)) == Len(SelectSeq(s, P))

\* The float result of _logistic is exactly 1.0: with z = k * (x - x0),
\* math.exp(-z) is at most 2^-53 from z = 53 ln 2 = 36.7368... on, and
\* 1 + math.exp(-z) rounds to 1.0.
_logisticIsOne(xn, xd, kn, kd, x0n, x0d) ==
    LET n == kn * (xn * x0d - x0n * xd)
        d == kd * xd * x0d
    IN  n >= 0 /\ n * 10000 >= 367369 * d

\* _score_text with the three weights left out
_score_textUnweighted(text) ==
    LET words == Split(text)
        wc    == Len(words)
        np    == CountIf(text, IsPunct)
        ns    == CountIf(words, LAMBDA w : Lower(w) \in _STOPWORDS)
    IN  IF wc = 0
        THEN <<0, [wc |-> 0, punc |-> 0, stop |-> 0]>>
        ELSE <<  _logistic(wc, 1, 1, 10, 40, 1)
               + _logistic(np, wc, 10, 1, 5, 100)
               + _logistic(ns, wc, 10, 1, 25, 100),
               [wc |-> wc, punc |-> (np * Unit) \div wc, stop |-> (ns * Unit) \div wc]>>
\* _score_text: <<score, features>>
_score_text(text) ==
    LET words == Split(text)
        wc    == Len(words)
        np    == CountIf(text, IsPunct)
        ns    == CountIf(words, LAMBDA w : Lower(w) \in _STOPWORDS)
    IN  IF wc = 0
        THEN <<0, [wc |-> 0, punc |-> 0, stop |-> 0]>>
        ELSE <<(  50 * _logistic(wc, 1, 1, 10, 40, 1)
                + 25 * _logistic(np, wc, 10, 1, 5, 100)
                + 25 * _logistic(ns, wc, 10, 1, 25, 100)) \div 100,
               [wc |-> wc, punc |-> (np * Unit) \div wc, stop |-> (ns * Unit) \div wc]>>

(***************************************************************************)
(* Block objects.                                                          *)
(***************************************************************************)
\* The embedding field holds <<>> for Python's None and <<i>> for embs[i].
NoEmbedding == <<>>
Block(pos, tag, depth, text, score, features) ==
    [pos |-> pos, tag |-> tag, depth |-> depth, text |-> text, score |-> score,
     features |-> features, dup_reason |-> None, embedding |-> NoEmbedding]

\* A block as collect_blocks creates it from an element's text.
NewBlock(pos, tag, depth, text) ==
    Block(pos, tag, depth, text, _score_text(text)[1], _score_text(text)[2])

\* `b.dup_reason = reason` on the block behind reference r
TaggedAndBlanked(bs, r, reason) ==
    [bs EXCEPT ![r].dup_reason = reason, ![r].text = <<>>]
Tagged(bs, r, reason) == [bs EXCEPT ![r].dup_reason = reason]

Refs(bs) == [i \in 1..Len(bs) |-> i]

Range(s) == {s[i] : i \in 1..Len(s)}

Min(a, b) == IF a <= b THEN a ELSE b
Max(a, b) == IF a >= b THEN a ELSE b

RemoveAt(s, k) == SubSeq(s, 1, k - 1) \o SubSeq(s, k + 1, Len(s))

(***************************************************************************)
(* Lists of texts with at most n characters in total.                      *)
(***************************************************************************)
Strings(n) == [1..n -> Chars]

\* The texts a block can carry: non-empty, and left unchanged by
\* _collapse_ws (which collect_blocks applies to every text).
BlockTexts(n) == {t \in Strings(n) : n > 0 /\ _collapse_ws(t) = t}

\* The paragraphs jsonl_to_txt passes on: stripped and non-empty.
Paragraphs(n) == {t \in Strings(n) : n > 0 /\ Strip(t) = t}

\* T[k] is the set of admissible texts of k characters.
RECURSIVE TextLists(_, _)
TextLists(n, T) ==
    {<<>>} \cup UNION {{<<t>> \o rest : t \in T[k], rest \in TextLists(n - k, T)} :
                         k \in 1..n}

BlockTextLists == TextLists(MaxChars, [k \in 1..MaxChars |-> BlockTexts(k)])
ParagraphLists == TextLists(MaxChars, [k \in 1..MaxChars |-> Paragraphs(k)])

(***************************************************************************)
(* collect_blocks(html)                                                    *)
(*                                                                         *)
(* The parsed document is soup.body.descendants in document order: each    *)
(* node has a name (a tag name, or "#text" for a NavigableString), its     *)
(* nesting level below body (1 for a child of body) and, for a string,     *)
(* its characters.  A document may have no body element (soup.body is      *)
(* None).                                                                  *)
(***************************************************************************)
\* Number of descendants of body.
MaxNodes == 3

TagNames == {"p", "div", "span"}

\* The strings of the model's documents.
DocStrings ==
    {<<" ">>, <<"a">>, <<"b", "\n", " ", ".">>, <<" ", "A", "\t">>}

Node(name, level, str) == [name |-> name, level |-> level, str |-> str]

IsTag(n) == n.name # "#text"

\* The documents of n nodes: a node is a child of the previous node (if
\* that is a tag), or of one of its ancestors, or of body.
RECURSIVE Docs(_)
Docs(n) ==
    IF n = 0 THEN {<<>>}
    ELSE LET Levels(d) ==
                 IF d = <<>> THEN {1}
                 ELSE 1..(d[Len(d)].level + (IF IsTag(d[Len(d)]) THEN 1 ELSE 0))
         IN  UNION {{Append(d, Node(t, l, <<>>)) : t \in TagNames, l \in Levels(d)}
                    \cup {Append(d, Node("#text", l, x)) : x \in DocStrings, l \in Levels(d)}
                    : d \in Docs(n - 1)}

\* A parsed document with a body, and one without.
WithBody(nodes) == [body |-> TRUE, nodes |-> nodes]
NoBody == [body |-> FALSE, nodes |-> <<>>]

\* The descendants of node i, in document order.
Descendants(d, i) ==
    SelectSeq([k \in 1..Len(d) |-> k],
              LAMBDA j : j > i /\ \A m \in (i + 1)..j : d[m].level > d[i].level)

RECURSIVE Join(_, _)
Join(sep, strs) ==
    IF strs = <<>> THEN <<>>
    ELSE IF Len(strs) = 1 THEN strs[1]
    ELSE strs[1] \o sep \o Join(sep, Tail(strs))

\* node.get_text(" ", strip=True): the stripped, non-empty strings below
\* the node, joined by one space
GetText(d, i) ==
    LET below == Descendants(d, i)
        strs  == [k \in 1..Len(below) |-> Strip(d[below[k]].str)]
    IN  Join(<<" ">>, SelectSeq(strs, LAMBDA x : x # <<>>))

\* text = _collapse_ws(node.get_text(" ", strip=True))
NodeText(d, i) == _collapse_ws(GetText(d, i))

\* depth = len(list(node.parents)) - 1: the ancestors are the tags above
\* the node up to body, then html and the BeautifulSoup object
NodeDepth(n) == (n.level + 2) - 1

\* pos += 1
CollectPosStuck(pos) == pos
CollectNextPos(pos) == pos + 1

InitCollect ==
    /\ pc = "collect"
    /\ CallIdle /\ AgentIdle
    /\ doc \in {NoBody} \cup {WithBody(d) : d \in UNION {Docs(n) : n \in 0..MaxNodes}}
    /\ ci = 0 /\ cpos = 0
    /\ blocks = <<>> /\ filtered = <<>> /\ keep = <<>> /\ dedup = <<>>
    /\ ThrIdle /\ FpIdle /\ SemIdle /\ KlIdle
    /\ exc = None /\ MainIdle /\ JtIdle

\* soup.body is None: `soup.body.descendants` raises AttributeError
CollectNoBody ==
    /\ pc = "collect" /\ ~doc.body
    /\ pc' = "raised"
    /\ exc' = "AttributeError"
    /\ UNCHANGED <<blocks, filtered, keep, dedup, collectVars, scores, thr,
                   fpVars, semVars, klVars, mainVars, jtVars,
                   callVars, agentVars>>

\* a string, or a tag outside BLOCK_TAGS: next node
CollectSkipNode ==
    /\ pc = "collect" /\ doc.body /\ ci < Len(doc.nodes)
    /\ ~(IsTag(doc.nodes[ci + 1]) /\ doc.nodes[ci + 1].name \in BLOCK_TAGS)
    /\ ci' = ci + 1
    /\ UNCHANGED <<pc, doc, cpos, blocks, filtered, keep, dedup, scores, thr,
                   fpVars, semVars, klVars,
                   exc, mainVars, jtVars,
                   callVars, agentVars>>

\* `if not text: continue`
CollectSkipEmpty ==
    /\ pc = "collect" /\ doc.body /\ ci < Len(doc.nodes)
    /\ IsTag(doc.nodes[ci + 1]) /\ doc.nodes[ci + 1].name \in BLOCK_TAGS
    /\ NodeText(doc.nodes, ci + 1) = <<>>
    /\ ci' = ci + 1
    /\ UNCHANGED <<pc, doc, cpos, blocks, filtered, keep, dedup, scores, thr,
                   fpVars, semVars, klVars,
                   exc, mainVars, jtVars,
                   callVars, agentVars>>

\* blocks.append(Block(pos, node.name, depth, text, score, feats)); pos += 1
CollectAppend ==
    /\ pc = "collect" /\ doc.body /\ ci < Len(doc.nodes)
    /\ IsTag(doc.nodes[ci + 1]) /\ doc.nodes[ci + 1].name \in BLOCK_TAGS
    /\ NodeText(doc.nodes, ci + 1) # <<>>
    /\ blocks' = Append(blocks, NewBlock(cpos, doc.nodes[ci + 1].name,
                                         NodeDepth(doc.nodes[ci + 1]), NodeText(doc.nodes, ci + 1)))
    /\ cpos' = CollectNextPos(cpos)
    /\ ci' = ci + 1
    /\ UNCHANGED <<pc, doc, filtered, keep, dedup, scores, thr,
                   fpVars, semVars, klVars,
                   exc, mainVars, jtVars,
                   callVars, agentVars>>

\* return blocks
CollectReturnEarly ==
    /\ pc = "collect" /\ doc.body
    /\ pc' = "collected"
    /\ UNCHANGED <<doc, ci, cpos, blocks, filtered, keep, dedup, scores, thr,
                   fpVars, semVars, klVars, exc, mainVars, jtVars,
                   callVars, agentVars>>
CollectReturn ==
    /\ pc = "collect" /\ doc.body /\ ci = Len(doc.nodes)
    /\ pc' = "collected"
    /\ UNCHANGED <<doc, ci, cpos, blocks, filtered, keep, dedup, scores, thr,
                   fpVars, semVars, klVars,
                   exc, mainVars, jtVars,
                   callVars, agentVars>>

NextCollect ==
    CollectNoBody \/ CollectSkipNode \/ CollectSkipEmpty \/ CollectAppend \/ CollectReturn

SpecCollect == InitCollect /\ [][NextCollect]_vars

(***************************************************************************)
(* _auto_threshold(blocks) and the filter of main                          *)
(***************************************************************************)
\* Number of scored blocks passed to _auto_threshold.
MaxThrBlocks == 4

\* Scores drawn for a block: below, at and above both bounds of the band.
ScoreValues == {1233, 2499, 2500, 3542, 6000, 6001, 9900}

\* sorted(b.score for b in blocks)
RECURSIVE SortedScores(_)
SortedScores(s) ==
    IF s = <<>> THEN <<>>
    ELSE LET k == CHOOSE k \in 1..Len(s) : \A j \in 1..Len(s) : s[k] <= s[j]
         IN  <<s[k]>> \o SortedScores(RemoveAt(s, k))

\* int(len(scores) * TARGET_PERCENT / 100), a 0-based index
ThrIndexRoundedUp(n) == (n * TARGET_PERCENT + 99) \div 100
ThrIndex(n) == (n * TARGET_PERCENT) \div 100

\* max(MIN_THRESH, min(MAX_THRESH, thr))
ClampSwapped(t) == Max(MAX_THRESH, Min(MIN_THRESH, t))
Clamp(t) == Max(MIN_THRESH, Min(MAX_THRESH, t))

InitThr ==
    /\ pc = "threshold"
    /\ CallIdle /\ AgentIdle
    /\ \E n \in 0..MaxThrBlocks : \E sc \in [1..n -> ScoreValues] :
          blocks = [i \in 1..n |->
                       Block(i - 1, "p", 2, <<"b">>, sc[i], _score_text(<<"b">>)[2])]
    /\ scores = <<>> /\ thr = 0
    /\ filtered = <<>> /\ keep = <<>> /\ dedup = <<>>
    /\ CollectIdle /\ FpIdle /\ SemIdle /\ KlIdle
    /\ exc = None /\ MainIdle /\ JtIdle

\* `if not blocks: return MIN_THRESH`
ThrEmpty ==
    /\ pc = "threshold" /\ blocks = <<>>
    /\ thr' = MIN_THRESH
    /\ pc' = "filter"
    /\ UNCHANGED <<blocks, scores, filtered, keep, dedup,
                   collectVars, fpVars, semVars, klVars,
                   exc, mainVars, jtVars,
                   callVars, agentVars>>

\* scores = sorted(b.score for b in blocks)
ThrSort ==
    /\ pc = "threshold" /\ blocks # <<>>
    /\ scores' = SortedScores([i \in 1..Len(blocks) |-> blocks[i].score])
    /\ pc' = "threshold_pick"
    /\ UNCHANGED <<blocks, thr, filtered, keep, dedup,
                   collectVars, fpVars, semVars, klVars,
                   exc, mainVars, jtVars,
                   callVars, agentVars>>

\* thr = scores[int(...)] (IndexError outside the list); return the clamp
ThrPick ==
    /\ pc = "threshold_pick"
    /\ LET idx == ThrIndex(Len(scores))
       IN  IF idx < Len(scores)
           THEN thr' = Clamp(scores[idx + 1]) /\ pc' = "filter" /\ exc' = exc
           ELSE thr' = thr /\ pc' = "raised" /\ exc' = "IndexError"
    /\ UNCHANGED <<blocks, scores, filtered, keep, dedup,
                   collectVars, fpVars, semVars, klVars, mainVars, jtVars,
                   callVars, agentVars>>

\* `b.score >= thr`
FilterKeepsStrict(score, t) == score > t
FilterKeeps(score, t) == score >= t

\* main: filtered = [b for b in blocks if b.score >= thr]
Filter ==
    /\ pc = "filter"
    /\ filtered' = SelectSeq(Refs(blocks), LAMBDA r : FilterKeeps(blocks[r].score, thr))
    /\ pc' = "filtered"
    /\ UNCHANGED <<blocks, scores, thr, keep, dedup,
                   collectVars, fpVars, semVars, klVars,
                   exc, mainVars, jtVars,
                   callVars, agentVars>>

NextThr == ThrEmpty \/ ThrSort \/ ThrPick \/ Filter

SpecThr == InitThr /\ [][NextThr]_vars

(***************************************************************************)
(* dedup_fingerprint(filtered)                                             *)
(***************************************************************************)
\* `fp in seen`
FpSeen(seen_, fp) == fp \in seen_

\* `seen.add(fp)`
FpAddNothing(seen_, fp) == seen_
FpAdd(seen_, fp) == seen_ \cup {fp}

\* `keep.append(b)`
FpKeepInFront(keep_, r) == <<r>> \o keep_
FpKeepAppend(keep_, r) == Append(keep_, r)

\* The block the loop is at, and its fingerprint.
FpRef == filtered[fi + 1]
FpCur == _fingerprint(blocks[FpRef].text)

InitFp ==
    /\ pc = "fingerprint"
    /\ CallIdle /\ AgentIdle
    /\ \E texts \in BlockTextLists :
          blocks = [i \in 1..Len(texts) |-> NewBlock(i - 1, "p", 2, texts[i])]
    /\ filtered = Refs(blocks)
    /\ keep = <<>> /\ dedup = <<>>
    /\ fi = 0 /\ seen = {}
    /\ CollectIdle /\ ThrIdle /\ SemIdle /\ KlIdle
    /\ exc = None /\ MainIdle /\ JtIdle

\* fp in seen: tag the block and continue
FpDrop ==
    /\ pc = "fingerprint" /\ fi < Len(filtered)
    /\ FpSeen(seen, FpCur)
    /\ blocks' = Tagged(blocks, FpRef, "fingerprint")
    /\ fi' = fi + 1
    /\ UNCHANGED <<pc, seen, keep, dedup, filtered, scores, thr,
                   collectVars, semVars, klVars,
                   exc, mainVars, jtVars,
                   callVars, agentVars>>

\* otherwise: seen.add(fp); keep.append(b)
FpKeep ==
    /\ pc = "fingerprint" /\ fi < Len(filtered)
    /\ ~FpSeen(seen, FpCur)
    /\ seen' = FpAdd(seen, FpCur)
    /\ keep' = FpKeepAppend(keep, FpRef)
    /\ fi' = fi + 1
    /\ UNCHANGED <<pc, blocks, dedup, filtered, scores, thr,
                   collectVars, semVars, klVars,
                   exc, mainVars, jtVars,
                   callVars, agentVars>>

\* return keep (main: dedup = dedup_fingerprint(filtered))
FpReturn ==
    /\ pc = "fingerprint" /\ fi = Len(filtered)
    /\ dedup' = keep
    /\ pc' = "fingerprint_done"
    /\ UNCHANGED <<blocks, keep, filtered, scores, thr, fpVars,
                   collectVars, semVars, klVars,
                   exc, mainVars, jtVars,
                   callVars, agentVars>>

NextFp == FpDrop \/ FpKeep \/ FpReturn

SpecFp == InitFp /\ [][NextFp]_vars

\* dedup_fingerprint(dedup_fingerprint(filtered)): the second call, on the
\* list the first call returned
FpCallAgain ==
    /\ pc = "fingerprint_done" /\ calls = 0
    /\ calls' = 1
    /\ ret' = <<dedup>>
    /\ filtered' = dedup
    /\ fi' = 0 /\ seen' = {} /\ keep' = <<>>
    /\ pc' = "fingerprint"
    /\ UNCHANGED <<arg, blocks, dedup, scores, thr,
                   collectVars, semVars, klVars,
                   exc, mainVars, jtVars, agentVars>>

NextFpTwice == NextFp \/ FpCallAgain

SpecFpTwice == InitFp /\ [][NextFpTwice]_vars

(***************************************************************************)
(* _dedup_keep_longest(lines)                                              *)
(***************************************************************************)
\* items = [(i, ln, _normalize(ln)) for i, ln in enumerate(lines)]
KlItems(ls) == [i \in 1..Len(ls) |-> <<i - 1, ls[i], _normalize(ls[i])>>]

\* The order of items.sort(key=lambda t: len(t[2]), reverse=True): a has to
\* come before b.
KlShorterFirst(a, b) == Len(a[3]) < Len(b[3])
KlLongerFirst(a, b) == Len(a[3]) > Len(b[3])


\* list.sort is stable: of the items no other item has to precede, the
\* first one in the list comes first.
RECURSIVE KlSorted(_)
KlSorted(s) ==
    IF s = <<>> THEN <<>>
    ELSE LET first == CHOOSE k \in 1..Len(s) :
                         /\ \A j \in 1..Len(s) : ~KlLongerFirst(s[j], s[k])
                         /\ \A j \in 1..(k - 1) :
                               \E m \in 1..Len(s) : KlLongerFirst(s[m], s[j])
         IN  <<s[first]>> \o KlSorted(RemoveAt(s, first))

\* any(norm in longer for longer in canon)
KlEqualsSome(norm, canon_) == \E k \in 1..Len(canon_) : norm = canon_[k]
KlContained(norm, canon_) == \E k \in 1..Len(canon_) : IsSubstring(norm, canon_[k])

\* sorted(d): the keys in ascending order
RECURSIVE SortedAsc(_)
SortedAsc(S) ==
    IF S = {} THEN <<>>
    ELSE LET m == CHOOSE x \in S : \A y \in S : x <= y
         IN  <<m>> \o SortedAsc(S \ {m})

RECURSIVE SortedDesc(_)
SortedDesc(S) ==
    IF S = {} THEN <<>>
    ELSE LET m == CHOOSE x \in S : \A y \in S : x >= y
         IN  <<m>> \o SortedDesc(S \ {m})

\* only the first survivor is returned
KlResultFirstOnly(kept) ==
    LET ks == SortedAsc(DOMAIN kept) IN [k \in 1..Min(1, Len(ks)) |-> kept[ks[k]]]
\* the survivors with the first one moved to the end
KlResultRotated(kept) ==
    LET ks == SortedAsc(DOMAIN kept)
        n  == Len(ks)
    IN  [k \in 1..n |-> kept[ks[(k % n) + 1]]]
\* [kept_raw[i] for i in sorted(kept_raw)]
KlResultDesc(kept) ==
    LET ks == SortedDesc(DOMAIN kept) IN [k \in 1..Len(ks) |-> kept[ks[k]]]
KlResult(kept) ==
    LET ks == SortedAsc(DOMAIN kept) IN [k \in 1..Len(ks) |-> kept[ks[k]]]

InitKl ==
    /\ pc = "kl_sort"
    /\ CallIdle /\ AgentIdle
    /\ lines \in ParagraphLists
    /\ items = <<>> /\ ki = 0 /\ kept_raw = <<>> /\ canon = <<>> /\ out = <<>>
    /\ blocks = <<>> /\ filtered = <<>> /\ keep = <<>> /\ dedup = <<>>
    /\ CollectIdle /\ ThrIdle /\ FpIdle /\ SemIdle
    /\ exc = None /\ MainIdle /\ JtIdle

\* items = [...]; items.sort(...)
KlSort ==
    /\ pc = "kl_sort"
    /\ items' = KlSorted(KlItems(lines))
    /\ pc' = "kl_loop"
    /\ UNCHANGED <<lines, ki, kept_raw, canon, out, blocks, filtered, keep, dedup,
                   scores, thr, collectVars, fpVars, semVars,
                   exc, mainVars, jtVars,
                   callVars, agentVars>>

\* norm is inside an accepted paragraph: continue
KlSkip ==
    /\ pc = "kl_loop" /\ ki < Len(items)
    /\ KlContained(items[ki + 1][3], canon)
    /\ ki' = ki + 1
    /\ UNCHANGED <<pc, lines, items, kept_raw, canon, out, blocks, filtered, keep,
                   dedup, scores, thr, collectVars, fpVars, semVars,
                   exc, mainVars, jtVars,
                   callVars, agentVars>>

\* otherwise: kept_raw[idx] = raw; canon.append(norm)
KlAccept ==
    /\ pc = "kl_loop" /\ ki < Len(items)
    /\ ~KlContained(items[ki + 1][3], canon)
    /\ LET it == items[ki + 1]
       IN  /\ kept_raw' = [i \in DOMAIN kept_raw \cup {it[1]} |->
                              IF i = it[1] THEN it[2] ELSE kept_raw[i]]
           /\ canon' = Append(canon, it[3])
    /\ ki' = ki + 1
    /\ UNCHANGED <<pc, lines, items, out, blocks, filtered, keep, dedup,
                   scores, thr, collectVars, fpVars, semVars,
                   exc, mainVars, jtVars,
                   callVars, agentVars>>

\* return [kept_raw[i] for i in sorted(kept_raw)]
KlReturn ==
    /\ pc = "kl_loop" /\ ki = Len(items)
    /\ out' = KlResult(kept_raw)
    /\ pc' = "kl_done"
    /\ UNCHANGED <<lines, items, ki, kept_raw, canon, blocks, filtered, keep, dedup,
                   scores, thr, collectVars, fpVars, semVars,
                   exc, mainVars, jtVars,
                   callVars, agentVars>>

NextKl == KlSort \/ KlSkip \/ KlAccept \/ KlReturn

SpecKl == InitKl /\ [][NextKl]_vars

(***************************************************************************)
(* dedup_semantic(dedup)                                                   *)
(*                                                                         *)
(* The embedding model is outside the repository: its effect is the        *)
(* cosine similarity of every pair of embeddings, sim[i][j] (0-based       *)
(* positions of the argument list): symmetric, 1 on the diagonal, and any  *)
(* value for two different blocks.                                         *)
(***************************************************************************)
\* Number of blocks passed to dedup_semantic.
MaxSemBlocks == 3

\* Similarities drawn for a pair: far apart, and around the thresholds of
\* the list lengths the model reaches.
SimValues == {5000, 9292, 9294, 9296}


\* sim_thr without the cap of min
SimThrUncapped(n) == 9300 - (n * Unit) \div 5000
\* sim_thr = 0.93 - min(0.08, len(blocks) / 5000)
SimThr(n) == 9300 - Min(800, (n * Unit) \div 5000)

\* `util.pytorch_cos_sim(embs[i], embs[j]).item() >= sim_thr`
SemSimilarStrict(c, t) == c > t
SemSimilar(c, t) == c >= t

\* The positions block i is compared with: `for j in idxs`
SemComparedAllBefore(idxs_, i) == 0..(i - 1)
SemCompared(idxs_, i) == Range(idxs_)

\* any(... >= sim_thr for j in idxs), for the block at position i
SemIsDup(i) ==
    \E j \in SemCompared(idxs, i) : SemSimilar(sim[i][j], SimThr(Len(dedup)))

InitSem ==
    /\ pc = "semantic"
    /\ CallIdle /\ AgentIdle
    /\ \E n \in 0..MaxSemBlocks :
          /\ blocks = [i \in 1..n |->
                          NewBlock(i - 1, "p", 2, [k \in 1..i |-> "b"])]
          /\ \E pair \in [{p \in (0..(n - 1)) \X (0..(n - 1)) : p[2] < p[1]} -> SimValues] :
                sim = [i \in 0..(n - 1) |-> [j \in 0..(n - 1) |->
                          IF i = j THEN Unit
                          ELSE pair[<<Max(i, j), Min(i, j)>>]]]
    /\ filtered = Refs(blocks)
    /\ dedup = Refs(blocks)
    /\ keep = <<>> /\ idxs = <<>> /\ si = 0
    /\ CollectIdle /\ ThrIdle /\ FpIdle /\ KlIdle
    /\ exc = None /\ MainIdle /\ JtIdle

\* similar to a kept block: tag and continue
SemDrop ==
    /\ pc = "semantic" /\ si < Len(dedup)
    /\ SemIsDup(si)
    /\ blocks' = Tagged(blocks, dedup[si + 1], "semantic")
    /\ si' = si + 1
    /\ UNCHANGED <<pc, keep, dedup, idxs, sim, filtered, scores, thr,
                   collectVars, fpVars, klVars,
                   exc, mainVars, jtVars,
                   callVars, agentVars>>

\* otherwise: b.embedding = embs[i]; keep.append(b); idxs.append(i)
SemKeep ==
    /\ pc = "semantic" /\ si < Len(dedup)
    /\ ~SemIsDup(si)
    /\ blocks' = [blocks EXCEPT ![dedup[si + 1]].embedding = <<si>>]
    /\ keep' = Append(keep, dedup[si + 1])
    /\ idxs' = Append(idxs, si)
    /\ si' = si + 1
    /\ UNCHANGED <<pc, dedup, sim, filtered, scores, thr,
                   collectVars, fpVars, klVars,
                   exc, mainVars, jtVars,
                   callVars, agentVars>>

\* return keep (main: dedup = dedup_semantic(dedup))
SemReturn ==
    /\ pc = "semantic" /\ si = Len(dedup)
    /\ dedup' = keep
    /\ pc' = "semantic_done"
    /\ UNCHANGED <<blocks, keep, sim, si, idxs, filtered, scores, thr,
                   collectVars, fpVars, klVars,
                   exc, mainVars, jtVars,
                   callVars, agentVars>>

NextSem == SemDrop \/ SemKeep \/ SemReturn

SpecSem == InitSem /\ [][NextSem]_vars

(***************************************************************************)
(* Serialisation: Block.to_json, json.dumps, json.loads.                   *)
(*                                                                         *)
(* A JSON value in a file is a record tagged with its JSON type; a string  *)
(* carries its literal, the characters between the quotes, escapes         *)
(* included.  A Python value read back is a record tagged with its Python  *)
(* type.  A file is a sequence of JSON values and line breaks.             *)
(***************************************************************************)
JNull         == [type |-> "null"]
JNum(n)       == [type |-> "number", num |-> n]
JStr(lit)     == [type |-> "string", lit |-> lit]
JArr(elems)   == [type |-> "array", elems |-> elems]
JObj(members) == [type |-> "object", members |-> members]

PyNone          == [type |-> "NoneType"]
PyNum(n)        == [type |-> "int", num |-> n]
PyStr(chars)    == [type |-> "str", chars |-> chars]
PyList(elems)   == [type |-> "list", elems |-> elems]
PyDict(members) == [type |-> "dict", members |-> members]

\* The line break "\n" between two values of a file.
NL == [type |-> "newline"]

\* json.dumps on one character of a str (ensure_ascii=False): the quote,
\* the backslash and the control characters are escaped
JsonEscapeNone(c) == <<c>>
JsonEscapeChar(c) ==
    CASE c = "\"" -> <<"\\", "\"">>
      [] c = "\\" -> <<"\\", "\\">>
      [] c = "\n" -> <<"\\", "n">>
      [] c = "\t" -> <<"\\", "t">>
      [] OTHER    -> <<c>>

RECURSIVE JsonEscape(_)
JsonEscape(s) ==
    IF s = <<>> THEN <<>> ELSE JsonEscapeChar(Head(s)) \o JsonEscape(Tail(s))

\* json.loads accepts the literal: no bare quote or control character, and
\* every backslash starts a known escape
RECURSIVE JsonValidLit(_)
JsonValidLit(lit) ==
    IF lit = <<>> THEN TRUE
    ELSE IF Head(lit) = "\\"
         THEN /\ Len(lit) >= 2
              /\ lit[2] \in {"\"", "\\", "n", "t"}
              /\ JsonValidLit(Tail(Tail(lit)))
         ELSE /\ Head(lit) \notin {"\"", "\n", "\t"}
              /\ JsonValidLit(Tail(lit))

\* json.loads on a valid literal
RECURSIVE JsonUnescape(_)
JsonUnescape(lit) ==
    IF lit = <<>> THEN <<>>
    ELSE IF Head(lit) = "\\"
         THEN <<CASE lit[2] = "n" -> "\n" [] lit[2] = "t" -> "\t" [] OTHER -> lit[2]>>
              \o JsonUnescape(Tail(Tail(lit)))
         ELSE <<Head(lit)>> \o JsonUnescape(Tail(lit))

\* Block.to_json: data = asdict(self); data.pop("embedding", None)
to_json(b) == [k \in DOMAIN b \ {"embedding"} |-> b[k]]

\* json.dumps(d, ensure_ascii=False) on the dict of a block.  A tag name and
\* a dup_reason hold nothing to escape and are kept as one unit.
JsonDumps(d) ==
    JObj([k \in DOMAIN d |->
            CASE k \in {"pos", "depth", "score"} -> JNum(d[k])
              [] k = "text" -> JStr(JsonEscape(d[k]))
              [] k = "tag" -> JStr(<<d[k]>>)
              [] k = "dup_reason" -> IF d[k] = None THEN JNull ELSE JStr(<<d[k]>>)
              [] k = "features" -> JObj([f \in DOMAIN d[k] |-> JNum(d[k][f])])
              [] OTHER -> JNull])

\* json.loads succeeds on a value of a file
JsonDecodable(v) ==
    /\ v.type # "newline"
    /\ v.type = "string" => JsonValidLit(v.lit)
    /\ v.type = "object" =>
          \A k \in DOMAIN v.members :
              v.members[k].type = "string" => JsonValidLit(v.members[k].lit)

\* json.loads on a value inside an object
JsonLoadsValue(v) ==
    CASE v.type = "null"   -> PyNone
      [] v.type = "number" -> PyNum(v.num)
      [] v.type = "string" -> PyStr(JsonUnescape(v.lit))
      [] v.type = "array"  -> PyList(v.elems)
      [] v.type = "object" -> PyDict(v.members)

\* rec = json.loads(line), for a line holding an object
JsonLoads(v) == [k \in DOMAIN v.members |-> JsonLoadsValue(v.members[k])]

\* "\n".join(ls)
JoinLinesNoBreak(ls) == ls
JoinLines(ls) == Join(<<NL>>, [k \in 1..Len(ls) |-> <<ls[k]>>])

\* `for line in fin`: the content up to each line break, and what follows
\* the last one if anything does
RECURSIVE ReadLines(_)
ReadLines(content) ==
    IF content = <<>> THEN <<>>
    ELSE LET End[k \in 0..Len(content)] ==
                 IF k < Len(content) /\ content[k + 1] # NL THEN End[k + 1] ELSE k
         IN  <<SubSeq(content, 1, End[0])>>
             \o ReadLines(SubSeq(content, End[0] + 2, Len(content)))

\* Python's truth value of an object
Truthy(v) ==
    CASE v.type = "NoneType" -> FALSE
      [] v.type = "int"      -> v.num # 0
      [] v.type = "str"      -> v.chars # <<>>
      [] v.type = "list"     -> v.elems # <<>>
      [] v.type = "dict"     -> DOMAIN v.members # {}

\* rec.get(key)
RecGet(rec, key) == IF key \in DOMAIN rec THEN rec[key] ELSE PyNone

(***************************************************************************)
(* jsonl_to_txt(src, dst)                                                  *)
(***************************************************************************)
\* Number of lines of a drawn src file.
MaxJtLines == 2

\* The outcome of the loop body on one line: the exception it raises, or
\* the text it finds.
JtRaises(e) == [exc |-> e, txt |-> <<>>]
JtFinds(t)  == [exc |-> None, txt |-> t]

\* rec = json.loads(line); txt = (rec.get("text") or "").strip()
JtLineText(line) ==
    IF Len(line) # 1 \/ ~JsonDecodable(line[1]) THEN JtRaises("JSONDecodeError")
    ELSE IF line[1].type # "object" THEN JtRaises("AttributeError")
    ELSE LET v == RecGet(JsonLoads(line[1]), "text")
             w == IF Truthy(v) THEN v ELSE PyStr(<<>>)
         IN  IF w.type = "str" THEN JtFinds(Strip(w.chars))
             ELSE JtRaises("AttributeError")

\* fout.write(para + "\n\n") for every paragraph
TxtOfWithHeader(unique) == <<"\n">> \o Join(<<"\n", "\n">>, unique)
TxtOf(unique) ==
    Join(<<>>, [k \in 1..Len(unique) |-> unique[k] \o <<"\n", "\n">>])

\* The objects of the drawn src files: the key "text" absent, or present
\* with null, a string, a number or a list.
JtTextValues ==
    {JNull, JNum(0), JNum(7), JArr(<<>>), JArr(<<JNum(1)>>)}
    \cup {JStr(JsonEscape(t)) :
            t \in {<<>>, <<" ">>, <<"a">>, <<" ", "a", " ", "b", "\n">>, <<"\"">>}}

JtRecords ==
    {JObj([pos |-> JNum(0)])}
    \cup {JObj([pos |-> JNum(0), text |-> v]) : v \in JtTextValues}

InitJt ==
    /\ pc = "jt_read"
    /\ CallIdle /\ AgentIdle
    /\ \E n \in 0..MaxJtLines : \E ls \in [1..n -> JtRecords] :
          jsonl = File(JoinLines(ls))
    /\ ji = 0 /\ paragraphs = <<>>
    /\ txt = NoFile /\ embeddings = FALSE /\ exc = None
    /\ blocks = <<>> /\ filtered = <<>> /\ keep = <<>> /\ dedup = <<>>
    /\ CollectIdle /\ ThrIdle /\ FpIdle /\ SemIdle /\ KlIdle

\* one turn of `for line in fin`
JtLine ==
    /\ pc = "jt_read" /\ ji < Len(ReadLines(jsonl.content))
    /\ LET o == JtLineText(ReadLines(jsonl.content)[ji + 1])
       IN  IF o.exc # None
           THEN pc' = "raised" /\ exc' = o.exc /\ UNCHANGED jtVars
           ELSE /\ paragraphs' = IF o.txt # <<>> THEN Append(paragraphs, o.txt)
                                 ELSE paragraphs
                /\ ji' = ji + 1
                /\ UNCHANGED <<pc, exc>>
    /\ UNCHANGED <<blocks, filtered, keep, dedup, scores, thr,
                   collectVars, fpVars, semVars, klVars, mainVars,
                   callVars, agentVars>>

\* unique = _dedup_keep_longest(paragraphs): the call
JtDedup ==
    /\ pc = "jt_read" /\ ji = Len(ReadLines(jsonl.content))
    /\ lines' = paragraphs
    /\ pc' = "kl_sort"
    /\ UNCHANGED <<items, ki, kept_raw, canon, out, blocks, filtered, keep, dedup,
                   scores, thr, collectVars, fpVars, semVars,
                   exc, mainVars, jtVars,
                   callVars, agentVars>>

\* with dst.open("w") as fout: ... (unique is the list returned)
JtWrite ==
    /\ pc = "kl_done"
    /\ txt' = File(TxtOf(out))
    /\ pc' = "jt_done"
    /\ UNCHANGED <<blocks, filtered, keep, dedup, scores, thr,
                   collectVars, fpVars, semVars, klVars,
                   exc, embeddings, jsonl, jtVars,
                   callVars, agentVars>>

NextJt == JtLine \/ JtDedup \/ KlSort \/ KlSkip \/ KlAccept \/ KlReturn \/ JtWrite

SpecJt == InitJt /\ [][NextJt]_vars

(***************************************************************************)
(* _fingerprint(text), called on its own and again on its result.          *)
(***************************************************************************)
\* The characters of a text passed to a function called on its own.
AnyChars == Chars \cup {"\n"}

AnyStrings == UNION {[1..n -> AnyChars] : n \in 0..MaxChars}

InitFingerprint ==
    /\ pc = "fp_call"
    /\ arg \in AnyStrings
    /\ calls = 0 /\ ret = <<>>
    /\ AgentIdle
    /\ blocks = <<>> /\ filtered = <<>> /\ keep = <<>> /\ dedup = <<>>
    /\ exc = None /\ MainIdle /\ JtIdle
    /\ CollectIdle /\ ThrIdle /\ FpIdle /\ SemIdle /\ KlIdle

\* _fingerprint(text)
FingerprintCall ==
    /\ pc = "fp_call" /\ calls = 0
    /\ ret' = Append(ret, _fingerprint(arg))
    /\ calls' = calls + 1
    /\ UNCHANGED <<pc, arg, blocks, filtered, keep, dedup, scores, thr,
                   collectVars, fpVars, semVars, klVars,
                   exc, mainVars, jtVars, agentVars>>

\* _fingerprint(_fingerprint(text))
FingerprintAgain ==
    /\ pc = "fp_call" /\ calls = 1
    /\ ret' = Append(ret, _fingerprint(ret[1]))
    /\ calls' = calls + 1
    /\ UNCHANGED <<pc, arg, blocks, filtered, keep, dedup, scores, thr,
                   collectVars, fpVars, semVars, klVars,
                   exc, mainVars, jtVars, agentVars>>

NextFingerprint == FingerprintCall \/ FingerprintAgain

SpecFingerprint == InitFingerprint /\ [][NextFingerprint]_vars

(***************************************************************************)
(* main(): the whole run on one document.                                  *)
(*                                                                         *)
(* The run chains the functions above; the steps of main between two       *)
(* calls are actions of their own.  The documents of a run are lists of    *)
(* <p> elements under body, each holding one string.                       *)
(***************************************************************************)
\* Number of <p> elements of a document.
MaxMainElems == 4

\* The strings of the documents of a run: whitespace only (no block), a
\* low-scoring word, a stop word, and a text that contains the stop word,
\* has a quote to escape and whitespace to collapse.
MainStrings ==
    {<<" ">>, <<"b">>, <<"a">>, <<"A", "\n", " ", "\"", "b", " ", ".">>}

RECURSIVE MainDocs(_)
MainDocs(n) ==
    IF n = 0 THEN {<<>>}
    ELSE {d \o <<Node("p", 1, <<>>), Node("#text", 2, x)>> :
             d \in MainDocs(n - 1), x \in MainStrings}

USE_EMBEDDINGS == FALSE

\* `if args.embeddings or USE_EMBEDDINGS`
SemanticAlways(flag) == TRUE
SemanticEnabled(flag) == flag \/ USE_EMBEDDINGS

\* Where the run goes when loading the model or encoding raises: nothing
\* catches the exception, it leaves dedup_semantic and main.
OnEmbeddingErrorFallBack == "serialize"
OnEmbeddingError == "raised"

\* The cosine similarities of n embeddings, from those of the pairs.
SimOf(n, pair) ==
    [i \in 0..(n - 1) |-> [j \in 0..(n - 1) |->
        IF i = j THEN Unit ELSE pair[<<Max(i, j), Min(i, j)>>]]]

\* The lines main writes: json.dumps(b.to_json(), ...) for b in dedup
JsonlRecords(bs, refs) == [k \in 1..Len(refs) |-> JsonDumps(to_json(bs[refs[k]]))]

InitMain ==
    /\ pc = "collect"
    /\ CallIdle /\ AgentIdle
    /\ doc \in {NoBody}
               \cup {WithBody(d) : d \in UNION {MainDocs(n) : n \in 0..MaxMainElems}}
    /\ embeddings \in BOOLEAN
    /\ ci = 0 /\ cpos = 0
    /\ blocks = <<>> /\ filtered = <<>> /\ keep = <<>> /\ dedup = <<>>
    /\ exc = None /\ jsonl = NoFile /\ txt = NoFile
    /\ ThrIdle /\ FpIdle /\ SemIdle /\ KlIdle /\ JtIdle

\* thr = _auto_threshold(blocks): the call
MainThreshold ==
    /\ pc = "collected"
    /\ pc' = "threshold"
    /\ UNCHANGED <<blocks, filtered, keep, dedup, scores, thr,
                   collectVars, fpVars, semVars, klVars,
                   exc, mainVars, jtVars,
                   callVars, agentVars>>

\* dedup = dedup_fingerprint(filtered): the call
MainFingerprint ==
    /\ pc = "filtered"
    /\ pc' = "fingerprint"
    /\ UNCHANGED <<blocks, filtered, keep, dedup, scores, thr,
                   collectVars, fpVars, semVars, klVars,
                   exc, mainVars, jtVars,
                   callVars, agentVars>>

\* `if args.embeddings or USE_EMBEDDINGS` is false
MainSkipSemantic ==
    /\ pc = "fingerprint_done" /\ ~SemanticEnabled(embeddings)
    /\ pc' = "serialize"
    /\ UNCHANGED <<blocks, filtered, keep, dedup, scores, thr,
                   collectVars, fpVars, semVars, klVars,
                   exc, mainVars, jtVars,
                   callVars, agentVars>>

\* dedup = dedup_semantic(dedup): the model loads and encodes the texts;
\* keep, idxs = [], []
SemEncode ==
    /\ pc = "fingerprint_done" /\ SemanticEnabled(embeddings)
    /\ \E pair \in [{p \in (0..(Len(dedup) - 1)) \X (0..(Len(dedup) - 1)) : p[2] < p[1]}
                      -> SimValues] :
          sim' = SimOf(Len(dedup), pair)
    /\ keep' = <<>>
    /\ pc' = "semantic"
    /\ UNCHANGED <<blocks, filtered, dedup, scores, thr, si, idxs,
                   collectVars, fpVars, klVars,
                   exc, mainVars, jtVars,
                   callVars, agentVars>>

\* the import, SentenceTransformer(...) or model.encode(...) raises
SemEncodeFails ==
    /\ pc = "fingerprint_done" /\ SemanticEnabled(embeddings)
    /\ exc' = "EmbeddingError"
    /\ pc' = OnEmbeddingError
    /\ UNCHANGED <<blocks, filtered, keep, dedup, scores, thr,
                   collectVars, fpVars, semVars, klVars, mainVars, jtVars,
                   callVars, agentVars>>

\* dedup_semantic has returned
MainAfterSemantic ==
    /\ pc = "semantic_done"
    /\ pc' = "serialize"
    /\ UNCHANGED <<blocks, filtered, keep, dedup, scores, thr,
                   collectVars, fpVars, semVars, klVars,
                   exc, mainVars, jtVars,
                   callVars, agentVars>>

\* args.output_jsonl.write_text("\n".join(...)); jsonl_to_txt(...): the call
Serialize ==
    /\ pc = "serialize"
    /\ jsonl' = File(JoinLines(JsonlRecords(blocks, dedup)))
    /\ pc' = "jt_read"
    /\ UNCHANGED <<blocks, filtered, keep, dedup, scores, thr,
                   collectVars, fpVars, semVars, klVars,
                   exc, embeddings, txt, jtVars,
                   callVars, agentVars>>

NextMain ==
    \/ CollectNoBody \/ CollectSkipNode \/ CollectSkipEmpty \/ CollectAppend
    \/ CollectReturn
    \/ MainThreshold \/ ThrEmpty \/ ThrSort \/ ThrPick \/ Filter
    \/ MainFingerprint \/ FpDrop \/ FpKeep \/ FpReturn
    \/ MainSkipSemantic \/ SemEncode \/ SemEncodeFails
    \/ SemDrop \/ SemKeep \/ SemReturn \/ MainAfterSemantic
    \/ Serialize
    \/ JtLine \/ JtDedup \/ KlSort \/ KlSkip \/ KlAccept \/ KlReturn \/ JtWrite

SpecMain == InitMain /\ [][NextMain]_vars

(***************************************************************************)
(* The similarity threshold of dedup_semantic, computed on its own for a   *)
(* list of n blocks and again for a list of n + 1 blocks.                   *)
(***************************************************************************)
\* Largest list length for which the threshold is computed.
MaxSimN == 402

InitSimThr ==
    /\ pc = "sim_thr"
    /\ arg \in 0..MaxSimN
    /\ calls = 0 /\ ret = <<>>
    /\ AgentIdle
    /\ blocks = <<>> /\ filtered = <<>> /\ keep = <<>> /\ dedup = <<>>
    /\ exc = None /\ MainIdle /\ JtIdle
    /\ CollectIdle /\ ThrIdle /\ FpIdle /\ SemIdle /\ KlIdle

\* sim_thr for len(blocks) = arg
SimThrCall ==
    /\ pc = "sim_thr" /\ calls = 0
    /\ ret' = Append(ret, SimThr(arg))
    /\ calls' = calls + 1
    /\ UNCHANGED <<pc, arg, blocks, filtered, keep, dedup, scores, thr,
                   collectVars, fpVars, semVars, klVars,
                   exc, mainVars, jtVars, agentVars>>

\* sim_thr for len(blocks) = arg + 1
SimThrLonger ==
    /\ pc = "sim_thr" /\ calls = 1
    /\ ret' = Append(ret, SimThr(arg + 1))
    /\ calls' = calls + 1
    /\ UNCHANGED <<pc, arg, blocks, filtered, keep, dedup, scores, thr,
                   collectVars, fpVars, semVars, klVars,
                   exc, mainVars, jtVars, agentVars>>

NextSimThr == SimThrCall \/ SimThrLonger

SpecSimThr == InitSimThr /\ [][NextSimThr]_vars

(***************************************************************************)
(* _score_text(text), called on its own and again on the same text.        *)
(***************************************************************************)
InitScore ==
    /\ pc = "score_call"
    /\ arg \in AnyStrings
    /\ calls = 0 /\ ret = <<>>
    /\ AgentIdle
    /\ blocks = <<>> /\ filtered = <<>> /\ keep = <<>> /\ dedup = <<>>
    /\ exc = None /\ MainIdle /\ JtIdle
    /\ CollectIdle /\ ThrIdle /\ FpIdle /\ SemIdle /\ KlIdle

\* _score_text(text)
ScoreCall ==
    /\ pc = "score_call" /\ calls = 0
    /\ ret' = Append(ret, _score_text(arg))
    /\ calls' = calls + 1
    /\ UNCHANGED <<pc, arg, blocks, filtered, keep, dedup, scores, thr,
                   collectVars, fpVars, semVars, klVars,
                   exc, mainVars, jtVars, agentVars>>

\* _score_text(text) a second time: the function reads its argument and the
\* module constants _RE_PUNCT and _STOPWORDS, which nothing assigns.
ScoreAgain ==
    /\ pc = "score_call" /\ calls = 1
    /\ ret' = Append(ret, _score_text(arg))
    /\ calls' = calls + 1
    /\ UNCHANGED <<pc, arg, blocks, filtered, keep, dedup, scores, thr,
                   collectVars, fpVars, semVars, klVars,
                   exc, mainVars, jtVars, agentVars>>

NextScore == ScoreCall \/ ScoreAgain

SpecScore == InitScore /\ [][NextScore]_vars

(***************************************************************************)
(* _dedup_keep_longest called again on its own result.                     *)
(***************************************************************************)
\* _dedup_keep_longest(_dedup_keep_longest(lines)): the first result is
\* remembered and passed as the argument of a second call.
KlCallAgain ==
    /\ pc = "kl_done" /\ calls = 0
    /\ calls' = calls + 1
    /\ ret' = Append(ret, out)
    /\ lines' = out
    /\ items' = <<>> /\ ki' = 0 /\ kept_raw' = <<>> /\ canon' = <<>> /\ out' = <<>>
    /\ pc' = "kl_sort"
    /\ UNCHANGED <<arg, blocks, filtered, keep, dedup,
                   scores, thr, collectVars, fpVars, semVars,
                   exc, mainVars, jtVars, agentVars>>

NextKlTwice == NextKl \/ KlCallAgain

SpecKlTwice == InitKl /\ [][NextKlTwice]_vars

(***************************************************************************)
(* main() on documents with nested allow-listed elements: under body, a    *)
(* few <p>b</p> elements, then one <div> whose children are strings,       *)
(* <p> elements holding a string, or <div><p> holding a string.            *)
(***************************************************************************)
\* Number of <p>b</p> elements before the <div>.
MaxFillers == 2
\* Number of children of the <div>.
MaxNestChildren == 2

\* The strings below the <div>: a stop word, and punctuation only.
NestStrings == {<<"a">>, <<".">>}

\* One child of the <div> (which is at level 1), as a list of nodes.
NestChild ==
    UNION {{ <<Node("#text", 2, x)>>,
             <<Node("p", 2, <<>>), Node("#text", 3, x)>>,
             <<Node("div", 2, <<>>), Node("p", 3, <<>>), Node("#text", 4, x)>> }
           : x \in NestStrings}

RECURSIVE NestChildren(_)
NestChildren(n) ==
    IF n = 0 THEN {<<>>}
    ELSE {cs \o c : cs \in NestChildren(n - 1), c \in NestChild}

RECURSIVE Fillers(_)
Fillers(n) ==
    IF n = 0 THEN <<>>
    ELSE Fillers(n - 1) \o <<Node("p", 1, <<>>), Node("#text", 2, <<"b">>)>>

NestDocs ==
    {Fillers(f) \o <<Node("div", 1, <<>>)>> \o cs :
        f \in 0..MaxFillers,
        cs \in UNION {NestChildren(n) : n \in 0..MaxNestChildren}}

InitNest ==
    /\ pc = "collect"
    /\ CallIdle /\ AgentIdle
    /\ doc \in {NoBody} \cup {WithBody(d) : d \in NestDocs}
    /\ embeddings \in BOOLEAN
    /\ ci = 0 /\ cpos = 0
    /\ blocks = <<>> /\ filtered = <<>> /\ keep = <<>> /\ dedup = <<>>
    /\ exc = None /\ jsonl = NoFile /\ txt = NoFile
    /\ ThrIdle /\ FpIdle /\ SemIdle /\ KlIdle /\ JtIdle

SpecNest == InitNest /\ [][NextMain]_vars

(***************************************************************************)
(* src/agent.py: WebBrowsingAgent.run_conversation.                        *)
(*                                                                         *)
(* A text returned by the language model is modelled by which of the       *)
(* three patterns of detect_tool_use it matches.  The loop is cut at its   *)
(* blocking calls: call_openai at the top, call_openai for the summary,    *)
(* and input.                                                              *)
(***************************************************************************)
\* The loop makes no further call to the model once the history has this
\* many messages.
MaxMessages == 7

Reply(e, s, v) == [exit |-> e, search |-> s, visit |-> v]
Replies == {Reply(e, s, v) : e \in BOOLEAN, s \in BOOLEAN, v \in BOOLEAN}

\* detect_tool_use(text)[0]: exit is looked for first, then search, then
\* visit
detect_tool_use(text) ==
    IF text.exit THEN "exit"
    ELSE IF text.search THEN "search"
    ELSE IF text.visit THEN "visit"
    ELSE None

Msg(role, content) == [role |-> role, content |-> content]
Content(kind) == [kind |-> kind]

\* `tool_type not in ("visit", "exit")`, negated
LoopAllowsSearch(tool_type) == tool_type \in {"visit", "exit", "search"}
LoopAllows(tool_type) == tool_type \in {"visit", "exit"}

\* messages.insert(-1, m): before the last element
InsertBeforeLast(ms, m) ==
    IF ms = <<>> THEN <<m>>
    ELSE SubSeq(ms, 1, Len(ms) - 1) \o <<m, ms[Len(ms)]>>

\* get_context_summary() is "" when nothing was visited
get_context_summary(visited) == IF visited = 0 THEN "" ELSE "context"

InitAgent ==
    /\ pc = "agent_call"
    /\ messages = <<Msg("system", Content("system_prompt")),
                    Msg("user", Content("first_user_query"))>>
    /\ tool_loop_active = FALSE
    /\ assistant_reply = None
    /\ visited_articles = 0
    /\ CallIdle
    /\ blocks = <<>> /\ filtered = <<>> /\ keep = <<>> /\ dedup = <<>>
    /\ exc = None /\ MainIdle /\ JtIdle
    /\ CollectIdle /\ ThrIdle /\ FpIdle /\ SemIdle /\ KlIdle

\* top of the loop: the context is inserted while in the tool loop, then
\* assistant_reply = self.call_openai(messages)
AgentCall ==
    /\ pc = "agent_call" /\ Len(messages) < MaxMessages
    /\ messages' = IF tool_loop_active /\ get_context_summary(visited_articles) # ""
                   THEN InsertBeforeLast(messages, Msg("system", Content("context")))
                   ELSE messages
    /\ assistant_reply' \in Replies
    /\ pc' = "agent_reply"
    /\ UNCHANGED <<tool_loop_active, visited_articles,
                   blocks, filtered, keep, dedup, scores, thr,
                   collectVars, fpVars, semVars, klVars,
                   exc, mainVars, jtVars, callVars>>

\* `if tool_loop_active and tool_type not in ("visit", "exit")`: the
\* warning is appended and the loop continues
AgentWarn ==
    /\ pc = "agent_reply"
    /\ tool_loop_active /\ ~LoopAllows(detect_tool_use(assistant_reply))
    /\ messages' = Append(messages, Msg("user", Content("meta_warning")))
    /\ pc' = "agent_call"
    /\ UNCHANGED <<tool_loop_active, assistant_reply, visited_articles,
                   blocks, filtered, keep, dedup, scores, thr,
                   collectVars, fpVars, semVars, klVars,
                   exc, mainVars, jtVars, callVars>>

\* The reply passes the rule of the tool loop.
AgentAccepts ==
    /\ pc = "agent_reply"
    /\ ~(tool_loop_active /\ ~LoopAllows(detect_tool_use(assistant_reply)))

\* accepted, tool_type == "search"
AgentSearch ==
    /\ AgentAccepts /\ detect_tool_use(assistant_reply) = "search"
    /\ tool_loop_active' = TRUE
    /\ messages' = messages \o <<Msg("assistant", assistant_reply),
                                 Msg("user", Content("search_results"))>>
    /\ pc' = "agent_call"
    /\ UNCHANGED <<assistant_reply, visited_articles,
                   blocks, filtered, keep, dedup, scores, thr,
                   collectVars, fpVars, semVars, klVars,
                   exc, mainVars, jtVars, callVars>>

\* accepted, tool_type == "visit": visit_website records the article
\* unless the page could not be fetched
AgentVisit ==
    /\ AgentAccepts /\ detect_tool_use(assistant_reply) = "visit"
    /\ tool_loop_active' = TRUE
    /\ \E fetched \in BOOLEAN :
          /\ visited_articles' = visited_articles + (IF fetched THEN 1 ELSE 0)
          /\ messages' = messages \o
                 <<Msg("assistant", assistant_reply),
                   Msg("user", Content(IF fetched THEN "page_text" ELSE "fetch_failed"))>>
    /\ pc' = "agent_call"
    /\ UNCHANGED <<assistant_reply,
                   blocks, filtered, keep, dedup, scores, thr,
                   collectVars, fpVars, semVars, klVars,
                   exc, mainVars, jtVars, callVars>>

\* accepted, tool_type == "exit": the loop is left and the summary asked for
AgentExit ==
    /\ AgentAccepts /\ detect_tool_use(assistant_reply) = "exit"
    /\ tool_loop_active' = FALSE
    /\ messages' = messages \o <<Msg("assistant", assistant_reply),
                                 Msg("user", Content("summary_request"))>>
    /\ pc' = "agent_summary"
    /\ UNCHANGED <<assistant_reply, visited_articles,
                   blocks, filtered, keep, dedup, scores, thr,
                   collectVars, fpVars, semVars, klVars,
                   exc, mainVars, jtVars, callVars>>

\* summary = self.call_openai(messages); it is appended and the loop
\* continues
AgentSummary ==
    /\ pc = "agent_summary"
    /\ \E summary \in Replies :
          messages' = Append(messages, Msg("assistant", summary))
    /\ pc' = "agent_call"
    /\ UNCHANGED <<tool_loop_active, assistant_reply, visited_articles,
                   blocks, filtered, keep, dedup, scores, thr,
                   collectVars, fpVars, semVars, klVars,
                   exc, mainVars, jtVars, callVars>>

\* accepted, no tool call: the reply is appended and the user prompted
AgentChat ==
    /\ AgentAccepts /\ detect_tool_use(assistant_reply) = None
    /\ messages' = Append(messages, Msg("assistant", assistant_reply))
    /\ pc' = "agent_input"
    /\ UNCHANGED <<tool_loop_active, assistant_reply, visited_articles,
                   blocks, filtered, keep, dedup, scores, thr,
                   collectVars, fpVars, semVars, klVars,
                   exc, mainVars, jtVars, callVars>>

\* user_input = input(...); messages.append(...)
AgentInput ==
    /\ pc = "agent_input"
    /\ messages' = Append(messages, Msg("user", Content("user_input")))
    /\ pc' = "agent_call"
    /\ UNCHANGED <<tool_loop_active, assistant_reply, visited_articles,
                   blocks, filtered, keep, dedup, scores, thr,
                   collectVars, fpVars, semVars, klVars,
                   exc, mainVars, jtVars, callVars>>

NextAgent ==
    \/ AgentCall \/ AgentWarn \/ AgentSearch \/ AgentVisit
    \/ AgentExit \/ AgentSummary \/ AgentChat \/ AgentInput

SpecAgent == InitAgent /\ [][NextAgent]_vars

(***************************************************************************)
(* Properties of dedup_fingerprint.                                        *)
(***************************************************************************)
\* s is strictly increasing.
Increasing(s) == \A k \in 1..(Len(s) - 1) : s[k] < s[k + 1]

\* The positions of `filtered` whose fingerprint no earlier position has.
FirstOccurrences ==
    {i \in 1..Len(filtered) :
        \A j \in 1..(i - 1) :
            _fingerprint(blocks[filtered[j]].text) # _fingerprint(blocks[filtered[i]].text)}

\* C1: when dedup_fingerprint returns, the result is exactly the blocks at
\* the first occurrence of each fingerprint, in input order: its positions
\* in the input are strictly increasing (nothing reordered, added or
\* repeated), every first occurrence is there, and no later occurrence is.
C1_FirstOccurrenceSubsequence ==
    pc = "fingerprint_done" =>
        \E f \in [1..Len(dedup) -> 1..Len(filtered)] :
            /\ Increasing(f)
            /\ \A k \in 1..Len(dedup) : dedup[k] = filtered[f[k]]
            /\ {f[k] : k \in 1..Len(dedup)} = FirstOccurrences

\* A run that dropped a repeated fingerprint and kept a block after it.
C1_Witness ==
    /\ pc = "fingerprint_done"
    /\ \E i, j \in 1..Len(filtered) :
          /\ i < j
          /\ blocks[filtered[i]].dup_reason # None
          /\ \E k \in 1..Len(dedup) : dedup[k] = filtered[j]

(***************************************************************************)
(* Properties of _dedup_keep_longest.                                      *)
(***************************************************************************)
\* Input indices (0-based, as enumerate gives them) and their normal forms.
KlIdx == 0..(Len(lines) - 1)
KlNorm(i) == _normalize(lines[i + 1])
KlKept == DOMAIN kept_raw

\* C2: when _dedup_keep_longest returns, no survivor's normalized form is a
\* substring of a different survivor's normalized form.
C2_NoSurvivorContained ==
    pc = "kl_done" =>
        /\ Len(out) = Cardinality(KlKept)
        /\ \A p, q \in 1..Len(out) :
              p # q => ~IsSubstring(_normalize(out[p]), _normalize(out[q]))
        /\ \A i \in KlIdx : \A j \in KlKept :
              (i # j /\ IsSubstring(KlNorm(i), KlNorm(j))) => i \notin KlKept

\* A run with two survivors and a dropped paragraph.
C2_Witness ==
    /\ pc = "kl_done"
    /\ Len(out) >= 2
    /\ \E i \in KlIdx : \E j \in KlKept :
          i # j /\ IsSubstring(KlNorm(i), KlNorm(j)) /\ i \notin KlKept

\* A cluster: paragraphs whose normalized forms are all contained in that
\* of its longest member L.
KlCluster(C, L) ==
    /\ L \in C
    /\ \A c \in C : /\ Len(KlNorm(c)) <= Len(KlNorm(L))
                    /\ IsSubstring(KlNorm(c), KlNorm(L))

KlLongestKept(L) ==
    /\ \A j \in KlIdx : IsSubstring(KlNorm(L), KlNorm(j)) => KlNorm(j) = KlNorm(L)
    /\ \A j \in KlIdx : j < L => KlNorm(j) # KlNorm(L)

C4_OutputIsSubsequence ==
    pc = "kl_done" =>
        \E f \in [1..Len(out) -> 1..Len(lines)] :
            /\ Increasing(f)
            /\ \A k \in 1..Len(out) : out[k] = lines[f[k]]
            /\ {f[k] - 1 : k \in 1..Len(out)} = KlKept

\* A run where two survivors were accepted in the opposite of their input
\* order.
C4_Witness ==
    /\ pc = "kl_done"
    /\ \E p, q \in 1..Len(items) :
          /\ p < q /\ items[p][1] > items[q][1]
          /\ items[p][1] \in KlKept /\ items[q][1] \in KlKept

(***************************************************************************)
(* Properties of dedup_semantic (under SpecSem the argument list is the    *)
(* whole store: position i of the argument is blocks[i + 1]).              *)
(***************************************************************************)
\* Number of blocks the call was given, and its threshold.
SemLen == IF pc = "semantic" THEN Len(dedup) ELSE si
SemThr == SimThr(SemLen)

SemKept(i) == i \in Range(idxs)
SemClose(i, j) == sim[i][j] >= SemThr

\* C5 as stated: of any two blocks with similarity >= threshold exactly
\* one survives, the earlier one.
C5_Original ==
    pc = "semantic_done" =>
        \A i, j \in 0..(SemLen - 1) :
            (i < j /\ SemClose(j, i)) => (SemKept(i) /\ ~SemKept(j))

\* C5 (amended): of any two blocks with similarity >= threshold at most
\* one survives; if the earlier one is kept the later one is dropped and
\* tagged; the later one survives only if the earlier one was itself dropped
\* as similar to a block kept before it; the first block is always kept.
C5_AtMostOneOfSimilarPair ==
    pc = "semantic_done" =>
        /\ \A i, j \in 0..(SemLen - 1) :
              (i < j /\ SemClose(j, i)) =>
                  /\ ~(SemKept(i) /\ SemKept(j))
                  /\ SemKept(i) => blocks[j + 1].dup_reason = "semantic"
                  /\ SemKept(j) =>
                        \E k \in 0..(i - 1) : SemKept(k) /\ SemClose(i, k)
        /\ SemLen > 0 => SemKept(0)

\* A run where a pair sits exactly at the threshold: the earlier block is
\* kept and the later one dropped.
C5_Witness ==
    /\ pc = "semantic_done"
    /\ \E i, j \in 0..(SemLen - 1) :
          /\ i < j /\ sim[j][i] = SemThr
          /\ SemKept(i) /\ ~SemKept(j)

\* C6: at every point of the loop, a visited block is kept iff its
\* similarity to every block kept before it is below the threshold; a
\* dropped block is tagged "semantic" and is never compared against, a kept
\* block carries its embedding and no tag, `keep` and `idxs` list the kept
\* blocks in order, and no two kept blocks have similarity >= threshold.
C6_GreedyKeepAgainstKeptOnly ==
    pc \in {"semantic", "semantic_done"} =>
        /\ \A i \in 0..(si - 1) :
              /\ SemKept(i) <=>
                    \A j \in 0..(i - 1) : SemKept(j) => sim[i][j] < SemThr
              /\ ~SemKept(i) => blocks[i + 1].dup_reason = "semantic"
              /\ SemKept(i) => /\ blocks[i + 1].dup_reason = None
                               /\ blocks[i + 1].embedding = <<i>>
        /\ \A i \in Range(idxs) : i < si
        /\ Increasing(idxs)
        /\ keep = [k \in 1..Len(idxs) |-> idxs[k] + 1]
        /\ \A i, j \in Range(idxs) : i # j => sim[i][j] < SemThr

\* A run that kept a block although it is similar to an earlier block,
\* because that earlier block had been dropped.
C6_Witness ==
    /\ pc = "semantic_done"
    /\ \E i, j \in 0..(SemLen - 1) :
          /\ j < i /\ SemClose(i, j)
          /\ ~SemKept(j) /\ SemKept(i)

(***************************************************************************)
(* Properties of collect_blocks.                                           *)
(***************************************************************************)
\* The elements that yield a block: allow-listed tags with non-empty text.
Emitting(d) ==
    {i \in 1..Len(d) :
        IsTag(d[i]) /\ d[i].name \in BLOCK_TAGS /\ NodeText(d, i) # <<>>}

\* C7: at every point of the traversal the positions of the blocks are
\* 0, 1, 2, ... in list order and the counter is the number of blocks; the
\* blocks are, in document order, exactly the allow-listed elements with
\* non-empty text among the nodes visited.
C7_PositionsAreZeroToN ==
    (doc.body /\ pc \in {"collect", "collected"}) =>
        /\ \A k \in 1..Len(blocks) : blocks[k].pos = k - 1
        /\ cpos = Len(blocks)
        /\ \E f \in [1..Len(blocks) -> 1..Len(doc.nodes)] :
              /\ Increasing(f)
              /\ {f[k] : k \in 1..Len(blocks)} = {i \in Emitting(doc.nodes) : i <= ci}
              /\ \A k \in 1..Len(blocks) :
                    /\ blocks[k].tag = doc.nodes[f[k]].name
                    /\ blocks[k].text = NodeText(doc.nodes, f[k])

\* A finished traversal that skipped an allow-listed element with empty
\* text and emitted a block for a later element.
C7_Witness ==
    /\ pc = "collected"
    /\ \E i, j \in 1..Len(doc.nodes) :
          /\ i < j
          /\ IsTag(doc.nodes[i]) /\ doc.nodes[i].name \in BLOCK_TAGS
          /\ NodeText(doc.nodes, i) = <<>>
          /\ j \in Emitting(doc.nodes)
    /\ blocks # <<>>

\* C8 as stated: for a document without a body collect_blocks returns the
\* empty sequence instead of raising.
C8_NoBodyYieldsEmpty ==
    (~doc.body /\ pc # "collect") => (pc = "collected" /\ blocks = <<>>)

(***************************************************************************)
(* Properties of _auto_threshold and the filter.                           *)
(***************************************************************************)
\* C9: _auto_threshold never raises, its index is inside the sorted list,
\* and the value it returns is in [MIN_THRESH, MAX_THRESH], MIN_THRESH for
\* the empty list.
C9_ThresholdInBand ==
    /\ pc # "raised"
    /\ pc = "threshold_pick" =>
          /\ Len(scores) = Len(blocks)
          /\ 0 <= ThrIndex(Len(scores)) /\ ThrIndex(Len(scores)) < Len(scores)
    /\ pc \in {"filter", "filtered"} =>
          /\ MIN_THRESH <= thr /\ thr <= MAX_THRESH
          /\ blocks = <<>> => thr = MIN_THRESH

\* A call whose percentile score lies above the band: the result is
\* MAX_THRESH.
C9_Witness ==
    /\ pc = "filter"
    /\ Len(scores) = MaxThrBlocks
    /\ scores[ThrIndex(Len(scores)) + 1] > MAX_THRESH
    /\ thr = MAX_THRESH

\* C10 as stated: for a non-empty list the filter keeps at least one block.
C10_Original ==
    (pc = "filtered" /\ blocks # <<>>) => filtered # <<>>

\* C10 (amended): for a non-empty list in which some block scores at least
\* MIN_THRESH, at least one block has score >= the threshold and the
\* filter keeps it; when every block scores below MIN_THRESH the threshold
\* is MIN_THRESH and the filter drops every block.
C10_KeepsSomeUnlessAllBelowMin ==
    (pc = "filtered" /\ blocks # <<>>) =>
        /\ (\E i \in 1..Len(blocks) : blocks[i].score >= MIN_THRESH) =>
              /\ \E i \in 1..Len(blocks) : blocks[i].score >= thr
              /\ filtered # <<>>
        /\ (\A i \in 1..Len(blocks) : blocks[i].score < MIN_THRESH) =>
              /\ thr = MIN_THRESH
              /\ filtered = <<>>

\* A list whose percentile score lies below the band while another block
\* reaches it: the filter keeps that block and drops the others.
C10_Witness ==
    /\ pc = "filtered"
    /\ scores # <<>>
    /\ scores[ThrIndex(Len(scores)) + 1] < MIN_THRESH
    /\ filtered # <<>>
    /\ Len(filtered) < Len(blocks)

(***************************************************************************)
(* Properties of the filter of main.                                       *)
(***************************************************************************)
\* floor(0.70 * n), without the division: the k with 10k <= 7n < 10(k+1).
FloorSeventyPercent(n) == CHOOSE k \in 0..n : 10 * k <= 7 * n /\ 7 * n < 10 * (k + 1)

\* The value at 0-based index k of the ascending order of the scores of
\* `blocks`: at most k scores are smaller and more than k are not larger.
ScoreAtRank(k) ==
    CHOOSE v \in {blocks[i].score : i \in 1..Len(blocks)} :
        /\ Cardinality({i \in 1..Len(blocks) : blocks[i].score < v}) <= k
        /\ Cardinality({i \in 1..Len(blocks) : blocks[i].score <= v}) > k

\* v clamped to the band [0.25, 0.60].
InBand(v) == IF v < 2500 THEN 2500 ELSE IF v > 6000 THEN 6000 ELSE v

\* C11: for a non-empty list of n scored blocks, the blocks handed on to
\* de-duplication are exactly the blocks whose score is at least
\* clamp(s[floor(0.70 n)], 0.25, 0.60), s the ascending scores, and they
\* are in the original order: no other criterion removes or adds a block.
C11_FilteredAreScoresAtLeastThreshold ==
    (pc = "filtered" /\ blocks # <<>>) =>
        LET t == InBand(ScoreAtRank(FloorSeventyPercent(Len(blocks))))
        IN  /\ Increasing(filtered)
            /\ Range(filtered) = {r \in 1..Len(blocks) : blocks[r].score >= t}

\* The filter has run on a list where it drops a block, keeps a block with
\* a score above the threshold and keeps one exactly at the threshold.
C11_Witness ==
    /\ pc = "filtered"
    /\ \E r \in 1..Len(blocks) : blocks[r].score < thr
    /\ \E r \in Range(filtered) : blocks[r].score > thr
    /\ \E r \in Range(filtered) : blocks[r].score = thr

(***************************************************************************)
(* Properties of jsonl_to_txt.                                             *)
(***************************************************************************)
\* The line holds an object whose "text" is a string with something other
\* than whitespace in it.
JtUsable(line) ==
    /\ "text" \in DOMAIN line[1].members
    /\ line[1].members["text"].type = "string"
    /\ Strip(JsonUnescape(line[1].members["text"].lit)) # <<>>

\* C15: in jsonl_to_txt a record without usable text (the key absent, null,
\* empty, whitespace only, or not a string) is skipped and never raises:
\* no run ends with an exception, and once the file is read the paragraphs
\* are the stripped texts of the usable records, in file order.
C15_UnusableTextIsSkipped ==
    /\ exc = None
    /\ pc # "raised"
    /\ (pc # "jt_read" \/ ji = Len(ReadLines(jsonl.content))) =>
          LET ls  == ReadLines(jsonl.content)
              use == SelectSeq(ls, JtUsable)
          IN  paragraphs =
                  [k \in 1..Len(use) |-> Strip(JsonUnescape(use[k][1].members["text"].lit))]

(***************************************************************************)
(* Properties of a whole run.                                              *)
(***************************************************************************)
\* The records of the written JSONL file, as jsonl_to_txt finds them.
WrittenRecords == ReadLines(jsonl.content)

\* C12: every record of the serialised stream has exactly the keys
\* position, tag, depth, text, score and features: no embedding and no
\* duplicate reason.
C12_RecordHasExactlySixKeys ==
    jsonl.written =>
        \A k \in 1..Len(WrittenRecords) :
            /\ Len(WrittenRecords[k]) = 1
            /\ DOMAIN WrittenRecords[k][1].members
                   = {"position", "tag", "depth", "text", "score", "features"}

\* C13: the serialised stream has exactly one record per surviving block,
\* one to a line and in the order of the surviving list, so the positions
\* read back from consecutive lines are strictly increasing.
C13_OneLinePerSurvivorInOrder ==
    jsonl.written =>
        /\ Len(WrittenRecords) = Len(dedup)
        /\ \A k \in 1..Len(WrittenRecords) :
              /\ Len(WrittenRecords[k]) = 1
              /\ JsonDecodable(WrittenRecords[k][1])
              /\ JsonLoads(WrittenRecords[k][1])["pos"] = PyNum(blocks[dedup[k]].pos)
        /\ \A k \in 1..(Len(WrittenRecords) - 1) :
              WrittenRecords[k][1].members["pos"].num
                  < WrittenRecords[k + 1][1].members["pos"].num

\* A file of two lines has been written whose positions are not adjacent.
C13_Witness ==
    /\ jsonl.written
    /\ Len(WrittenRecords) = 2
    /\ WrittenRecords[2][1].members["pos"].num
           > WrittenRecords[1][1].members["pos"].num + 1

\* C14: the paragraph jsonl_to_txt reads back from the record of a
\* surviving block is the text of that block, character for character:
\* neither the JSON encoding and decoding nor strip() changes it, no record
\* is skipped and reading does not raise.
C14_TextSurvivesRoundTrip ==
    jsonl.written =>
        /\ pc # "raised"
        /\ Len(paragraphs) = ji
        /\ \A k \in 1..ji : paragraphs[k] = blocks[dedup[k]].text

\* A text with a quote and a space in it has been written and read back.
C14_Witness ==
    /\ pc = "jt_read" /\ ji >= 1
    /\ "\"" \in Range(paragraphs[ji])
    /\ " " \in Range(paragraphs[ji])
    /\ JsonEscape(paragraphs[ji]) # paragraphs[ji]

\* The de-duplication stages of the run are over.
DedupOver == pc = "serialize" \/ jsonl.written

\* C16: a block dedup_fingerprint drops is tagged "exact"; once the
\* de-duplication stages are over every block they dropped carries "exact"
\* or "semantic" and every surviving block carries no tag.
C16_DroppedAreExactOrSemantic ==
    /\ pc \in {"fingerprint", "fingerprint_done"} =>
          \A r \in Range(filtered) :
              blocks[r].dup_reason # None => blocks[r].dup_reason = "exact"
    /\ DedupOver =>
          \A r \in Range(filtered) :
              IF r \in Range(dedup) THEN blocks[r].dup_reason = None
              ELSE blocks[r].dup_reason \in {"exact", "semantic"}

\* C17: when the semantic stage is enabled and the embedding model cannot
\* be loaded or cannot encode, the run ends with the error and writes
\* neither the JSONL nor the TXT file; it never goes on to write the
\* fingerprint-only result.
C17_EmbeddingFailureWritesNothing ==
    exc = "EmbeddingError" =>
        /\ SemanticEnabled(embeddings)
        /\ pc = "raised"
        /\ ~jsonl.written
        /\ ~txt.written

\* The model failed on a run whose fingerprint stage left blocks to write.
C17_Witness ==
    /\ exc = "EmbeddingError"
    /\ embeddings
    /\ Len(dedup) >= 2

\* The blocks dedup_fingerprint returns for `filtered`.
FpOutput ==
    LET first == SelectSeq([i \in 1..Len(filtered) |-> i],
                           LAMBDA i : i \in FirstOccurrences)
    IN  [k \in 1..Len(first) |-> filtered[first[k]]]

\* The run is past the call of dedup_fingerprint.
PastFingerprint ==
    pc \in {"fingerprint_done", "semantic", "semantic_done", "serialize"} \/ jsonl.written

\* C18: fingerprint de-duplication is part of every run and comes before
\* the semantic stage, whatever the option: no run reaches the semantic
\* stage or the serialisation without dedup_fingerprint having gone through
\* the whole filtered list, and the semantic stage starts from its result.
\* When the semantic stage is not enabled it is skipped entirely: nothing of
\* it runs, no block is tagged "semantic", and the serialised blocks are
\* exactly the result of dedup_fingerprint.
C18_FingerprintAlwaysSemanticOptional ==
    /\ PastFingerprint => fi = Len(filtered)
    /\ pc \in {"fingerprint_done", "semantic"} => dedup = FpOutput
    /\ ~embeddings =>
          /\ pc \notin {"semantic", "semantic_done"}
          /\ si = 0 /\ sim = <<>> /\ idxs = <<>>
          /\ \A i \in 1..Len(blocks) :
                blocks[i].dup_reason # "semantic" /\ blocks[i].embedding = NoEmbedding
          /\ PastFingerprint => dedup = FpOutput
          /\ jsonl.written =>
                /\ Len(WrittenRecords) = Len(FpOutput)
                /\ \A k \in 1..Len(FpOutput) :
                      WrittenRecords[k] = <<JsonDumps(to_json(blocks[FpOutput[k]]))>>

\* A run without the semantic stage has written a file after the
\* fingerprint stage dropped a block and kept two.
C18_Witness ==
    /\ ~embeddings
    /\ jsonl.written
    /\ Len(WrittenRecords) = 2
    /\ \E r \in Range(filtered) : blocks[r].dup_reason # None

\* The stage the run is in: 1 the traversal of collect_blocks, 2 the
\* threshold and the filter, 3 dedup_fingerprint, 4 dedup_semantic (or the
\* decision to skip it), 5 the serialisation, 6 the reading back, 7 the
\* containment pass, 8 the writing of the text, 9 the end; 0 after an
\* exception.
Stage ==
    CASE pc = "collect" -> 1
      [] pc \in {"collected", "threshold", "threshold_pick", "filter"} -> 2
      [] pc \in {"filtered", "fingerprint"} -> 3
      [] pc \in {"fingerprint_done", "semantic"} -> 4
      [] pc \in {"semantic_done", "serialize"} -> 5
      [] pc = "jt_read" -> 6
      [] pc \in {"kl_sort", "kl_loop"} -> 7
      [] pc = "kl_done" -> 8
      [] pc = "jt_done" -> 9
      [] OTHER -> 0

\* From the threshold on, each stage has taken in all of its input before
\* the next one begins, and a stage leaves no trace before it begins.
StagesInSequence ==
    Stage # 0 =>
        /\ Stage >= 2 => ci = Len(doc.nodes) /\ cpos = Len(blocks)
        /\ Stage <= 1 => scores = <<>> /\ thr = 0 /\ filtered = <<>>
        /\ Stage >= 3 =>
              /\ Len(scores) = Len(blocks)
              /\ Range(filtered) = {r \in 1..Len(blocks) : blocks[r].score >= thr}
        /\ Stage <= 2 =>
              /\ fi = 0 /\ seen = {} /\ keep = <<>> /\ dedup = <<>>
              /\ \A i \in 1..Len(blocks) : blocks[i].dup_reason = None
        /\ Stage >= 4 => fi = Len(filtered)
        /\ Stage <= 3 => sim = <<>> /\ si = 0 /\ idxs = <<>>
        /\ (Stage >= 5 /\ embeddings) => si = Cardinality(DOMAIN sim)
        /\ Stage <= 5 => ~jsonl.written /\ ji = 0 /\ paragraphs = <<>>
        /\ Stage >= 6 => jsonl.written /\ Len(WrittenRecords) = Len(dedup)
        /\ Stage <= 6 =>
              /\ lines = <<>> /\ items = <<>> /\ ki = 0
              /\ kept_raw = <<>> /\ canon = <<>> /\ out = <<>>
        /\ Stage >= 7 => ji = Len(WrittenRecords) /\ lines = paragraphs
        /\ Stage >= 8 => Len(items) = Len(lines) /\ ki = Len(items)
        /\ Stage <= 8 => ~txt.written
        /\ Stage >= 9 => txt.written

\* A block carries its score from the moment collect_blocks creates it.
ScoringBegun == blocks # <<>>

\* collect_blocks has visited every descendant of body.
CollectionOver == pc # "collect" \/ ci = Len(doc.nodes)

\* C19 as stated: the stages run strictly one after another, BlockCollector,
\* TextScorer, ThresholdCalibrator and filter, FingerprintDeduplicator, the
\* optional SemanticDeduplicator, serialisation, ContainmentDeduplicator,
\* text output; each has consumed its whole input before the next begins
\* and no two interleave: in particular no block is scored before the
\* collection is over.
C19_Original ==
    /\ StagesInSequence
    /\ ScoringBegun => CollectionOver

\* C19, amended: BlockCollector and TextScorer are one interleaved stage
\* (every block is scored when the traversal creates it, so it carries the
\* score of its text at every moment); from there on the stages run
\* strictly one after another and each has consumed its whole input before
\* the next begins.
C19_ScoredWhileCollectedThenInSequence ==
    /\ StagesInSequence
    /\ \A k \in 1..Len(blocks) : blocks[k].score = _score_text(blocks[k].text)[1]

\* A run with the semantic stage has ended after every stage had something
\* to do: several blocks were collected and scored, the filter and the
\* semantic stage dropped a block each, and the text file is not empty.
C19_Witness ==
    /\ pc = "jt_done" /\ embeddings
    /\ Len(filtered) < Len(blocks)
    /\ \E i \in 1..Len(blocks) : blocks[i].dup_reason = "semantic"
    /\ txt.content # <<>>

NoTextDoc == doc.body /\ Emitting(doc.nodes) = {}

\* C20: a document with a body in which no allow-listed element has text
\* runs through the whole pipeline without raising (only a failure of the
\* embedding model, C17, can end the run): no block is created, the
\* threshold is 0.25, the JSONL file is written with length zero and so is
\* the text file.
C20_EmptyDocumentYieldsEmptyFiles ==
    NoTextDoc =>
        /\ blocks = <<>>
        /\ exc \in {None, "EmbeddingError"}
        /\ exc = None => pc # "raised"
        /\ Stage >= 3 => thr = 2500 /\ filtered = <<>>
        /\ Stage >= 4 => dedup = <<>>
        /\ jsonl.written => jsonl.content = <<>>
        /\ txt.written => txt.content = <<>>
        /\ pc = "jt_done" => jsonl.written /\ txt.written

\* Such a document, with elements in it, has been run to the end.
C20_Witness ==
    /\ NoTextDoc
    /\ Len(doc.nodes) >= 4
    /\ pc = "jt_done"
    /\ jsonl = File(<<>>) /\ txt = File(<<>>)

(***************************************************************************)
(* Properties of functions called on their own.                            *)
(***************************************************************************)
\* C21: _fingerprint is idempotent: for every text t,
\* _fingerprint(_fingerprint(t)) = _fingerprint(t).
C21_FingerprintIdempotent ==
    calls = 2 => ret[2] = ret[1]

\* Both calls were made on a text from which the first call removed a
\* character and lowered a letter, leaving a word and whitespace.
C21_Witness ==
    /\ calls = 2
    /\ Len(ret[1]) < Len(arg)
    /\ "A" \in Range(arg)
    /\ \E i \in 1..Len(ret[1]) : IsSpace(ret[1][i])

\* C22: dedup_fingerprint is an idempotent filter: called on its own
\* result it returns the same list of blocks, and it drops and tags none
\* of them.
C22_DedupFingerprintIdempotent ==
    calls = 1 =>
        /\ \A r \in Range(ret[1]) : blocks[r].dup_reason = None
        /\ pc = "fingerprint_done" => dedup = ret[1]

\* The second call has returned, on a list of two blocks that the first
\* call got by dropping a block.
C22_Witness ==
    /\ calls = 1 /\ pc = "fingerprint_done"
    /\ Len(ret[1]) >= 2
    /\ \E i \in 1..Len(blocks) : blocks[i].dup_reason # None

(***************************************************************************)
(* Properties of the blocks of collect_blocks.                             *)
(***************************************************************************)
\* C23: the text of every block collect_blocks emits is non-empty and has
\* at least one word, has no whitespace at either end, has no whitespace
\* other than single spaces, and has no whitespace directly before one of
\* the characters , . ! ? ; :
C23_BlockTextIsNormalised ==
    \A k \in 1..Len(blocks) :
        LET t == blocks[k].text
        IN  /\ t # <<>>
            /\ Split(t) # <<>>
            /\ ~IsSpace(t[1]) /\ ~IsSpace(t[Len(t)])
            /\ \A i \in 1..(Len(t) - 1) :
                  IsSpace(t[i]) =>
                      /\ t[i] = " "
                      /\ ~IsSpace(t[i + 1])
                      /\ t[i + 1] \notin {",", ".", "!", "?", ";", ":"}

\* The traversal is over and has emitted a block for an element whose
\* strings, joined, had a newline and a space before a full stop.
C23_Witness ==
    /\ pc = "collected"
    /\ \E i \in Emitting(doc.nodes) :
          /\ "\n" \in Range(GetText(doc.nodes, i))
          /\ \E k \in 1..Len(blocks) :
                /\ blocks[k].text = NodeText(doc.nodes, i)
                /\ Len(blocks[k].text) < Len(GetText(doc.nodes, i))

(***************************************************************************)
(* Properties of the life of a block.                                      *)
(***************************************************************************)
\* Blocks a and b agree on every field outside the set F.
SameExcept(a, b, F) == \A f \in (DOMAIN a) \ F : a[f] = b[f]

\* In a step, blocks are only added at the end of the store, by the
\* traversal of collect_blocks.
CreatedOnce ==
    /\ Len(blocks') >= Len(blocks)
    /\ Len(blocks') > Len(blocks) => pc = "collect"

\* C24 as stated: a block is created once by collect_blocks and afterwards
\* only its score and features and its duplicate reason are ever changed;
\* the dedup stages leave pos, tag, depth, text, score and features of
\* every block unchanged, and no field changes once the serialised form
\* has been written.
C24_Original ==
    [][/\ CreatedOnce
       /\ \A k \in 1..Len(blocks) :
             /\ SameExcept(blocks[k], blocks'[k], {"score", "features", "dup_reason"})
             /\ pc \in {"fingerprint", "semantic"} =>
                   SameExcept(blocks[k], blocks'[k], {"dup_reason"})
             /\ jsonl.written => blocks'[k] = blocks[k]]_vars

\* C24, amended: a block is created once by collect_blocks, with its score
\* and features; afterwards pos, tag, depth, text, score and features never
\* change; the duplicate reason is set only by the two dedup stages, the
\* embedding only by dedup_semantic, on a block it keeps; no field changes
\* outside the dedup stages, in particular none once the serialised form
\* has been written.
C24_OnlyTagAndEmbeddingChange ==
    [][/\ CreatedOnce
       /\ \A k \in 1..Len(blocks) :
             /\ SameExcept(blocks[k], blocks'[k], {"dup_reason", "embedding"})
             /\ blocks'[k].dup_reason # blocks[k].dup_reason =>
                   pc \in {"fingerprint", "semantic"}
             /\ blocks'[k].embedding # blocks[k].embedding =>
                   /\ pc = "semantic"
                   /\ blocks'[k].dup_reason = None
                   /\ k \in Range(keep')
             /\ pc \notin {"fingerprint", "semantic"} => blocks'[k] = blocks[k]
             /\ jsonl.written => blocks'[k] = blocks[k]]_vars

\* The file is written after dedup_fingerprint tagged a block and
\* dedup_semantic tagged another and kept one with its embedding.
C24_Witness ==
    /\ jsonl.written
    /\ \E i \in 1..Len(blocks) : blocks[i].dup_reason = "fingerprint"
    /\ \E i \in 1..Len(blocks) : blocks[i].dup_reason = "semantic"
    /\ \E i \in 1..Len(blocks) : blocks[i].embedding # NoEmbedding

TermArgs(text) ==
    LET words == Split(text)
        wc    == Len(words)
        np    == CountIf(text, IsPunct)
        ns    == CountIf(words, LAMBDA w : Lower(w) \in _STOPWORDS)
    IN  << <<wc, 1, 1, 10, 40, 1>>,
           <<np, wc, 10, 1, 5, 100>>,
           <<ns, wc, 10, 1, 25, 100>> >>

TermValue(a) == _logistic(a[1], a[2], a[3], a[4], a[5], a[6])
TermIsOne(a) == _logisticIsOne(a[1], a[2], a[3], a[4], a[5], a[6])

\* What C26 says of the score and of the features of one call, but for the
\* interval of the terms.
ScoreAsWeightedSum(r) ==
    /\ 0 <= r[1] /\ r[1] <= Unit
    /\ Split(arg) = <<>> =>
          r = <<0, [wc |-> 0, punc |-> 0, stop |-> 0]>>
    /\ Split(arg) # <<>> =>
          LET t == TermArgs(arg)
          IN  /\ r[1] = (  50 * TermValue(t[1]) + 25 * TermValue(t[2])
                         + 25 * TermValue(t[3])) \div 100
              /\ r[2].wc = Len(Split(arg))

C27_DroppedHasContainerInOutput ==
    pc = "kl_done" =>
        /\ \A i \in KlIdx :
              lines[i + 1] \notin Range(out) \/ i \notin KlKept =>
                  \E k \in 1..Len(out) :
                      IsSubstring(KlNorm(i), _normalize(out[k]))
        /\ lines # <<>> => out # <<>>

\* Two paragraphs were dropped, one of them with a normalized form shorter
\* than every normalized form of the output.
C27_Witness ==
    /\ pc = "kl_done"
    /\ Cardinality(KlIdx \ KlKept) >= 2
    /\ \E i \in KlIdx \ KlKept :
          \A k \in 1..Len(out) : Len(KlNorm(i)) < Len(_normalize(out[k]))

\* C28: _dedup_keep_longest is idempotent: called on its own output it
\* returns that output, the same paragraphs in the same order, also for
\* lists with paragraphs of equal length or equal normalized form.
C28_KeepLongestIdempotent ==
    (calls = 1 /\ pc = "kl_done") => out = ret[1]

\* The second call has returned, on a list that starts with two paragraphs
\* of equal normalized length, the result of the first call.
C28_Witness ==
    /\ calls = 1 /\ pc = "kl_done"
    /\ Len(ret[1]) >= 2
    /\ Len(_normalize(ret[1][1])) = Len(_normalize(ret[1][2]))
    /\ Len(items) = Len(ret[1])

(***************************************************************************)
(* Properties of nested elements in a whole run.                           *)
(***************************************************************************)
\* The reference of the block collect_blocks made for emitting node i.
BlockOf(d, i) == Cardinality({j \in Emitting(d) : j <= i})

\* Emitting nodes a and e, e below a, whose blocks are both in the list
\* main serialises.
BothSerialised(a, e) ==
    /\ a \in Emitting(doc.nodes) /\ e \in Emitting(doc.nodes)
    /\ e \in Range(Descendants(doc.nodes, a))
    /\ BlockOf(doc.nodes, a) \in Range(dedup)
    /\ BlockOf(doc.nodes, e) \in Range(dedup)

\* C29: when the run has written the text file and the blocks of an
\* element and of one of its descendants were both serialised, the
\* descendant's text is not a paragraph of the text output, and some
\* paragraph of the output contains, in normalized form, the descendant's
\* text and the ancestor's.
C29_DescendantNeverStandalone ==
    pc = "jt_done" =>
        \A a, e \in 1..Len(doc.nodes) :
            BothSerialised(a, e) =>
                LET ta == blocks[BlockOf(doc.nodes, a)].text
                    te == blocks[BlockOf(doc.nodes, e)].text
                IN  /\ te \notin Range(out)
                    /\ \E k \in 1..Len(out) :
                          /\ IsSubstring(_normalize(te), _normalize(out[k]))
                          /\ IsSubstring(_normalize(ta), _normalize(out[k]))

\* The text file is written in a run that serialised the block of the
\* <div> and that of a descendant whose normalized form is not empty and
\* shorter than the <div>'s.
C29_Witness ==
    /\ pc = "jt_done"
    /\ \E a, e \in 1..Len(doc.nodes) :
          /\ BothSerialised(a, e)
          /\ _normalize(blocks[BlockOf(doc.nodes, e)].text) # <<>>
          /\ Len(_normalize(blocks[BlockOf(doc.nodes, e)].text))
                < Len(_normalize(blocks[BlockOf(doc.nodes, a)].text))

(***************************************************************************)
(* Properties of run_conversation.                                         *)
(***************************************************************************)
AssistantCount(ms) == CountIf(ms, LAMBDA m : m.role = "assistant")
UserCount(ms) == CountIf(ms, LAMBDA m : m.role = "user")

\* C30: in every step of run_conversation: while the tool loop is active
\* an assistant message is appended only for a reply detected as a visit
\* or an exit; any other reply received while it is active is left out of
\* the history, a warning is appended and the model is called again; the
\* loop becomes active with an accepted search or visit and inactive with
\* an exit; and the user is prompted, and the user's input appended, only
\* while the tool loop is inactive.
C30_ToolLoopAcceptsOnlyVisitOrExit ==
    [][/\ (tool_loop_active /\ AssistantCount(messages') > AssistantCount(messages)) =>
             /\ pc = "agent_reply"
             /\ detect_tool_use(assistant_reply) \in {"visit", "exit"}
             /\ messages'[Len(messages) + 1] = Msg("assistant", assistant_reply)
       /\ (pc = "agent_reply" /\ tool_loop_active
              /\ detect_tool_use(assistant_reply) \notin {"visit", "exit"}) =>
             /\ messages' = Append(messages, Msg("user", Content("meta_warning")))
             /\ pc' = "agent_call" /\ tool_loop_active'
       /\ (~tool_loop_active /\ tool_loop_active') =>
             /\ detect_tool_use(assistant_reply) \in {"search", "visit"}
             /\ AssistantCount(messages') > AssistantCount(messages)
       /\ (tool_loop_active /\ ~tool_loop_active') =>
             detect_tool_use(assistant_reply) = "exit"
       /\ pc' = "agent_input" => ~tool_loop_active /\ ~tool_loop_active'
       /\ pc = "agent_input" =>
             /\ ~tool_loop_active
             /\ messages' = Append(messages, Msg("user", Content("user_input")))]_vars

\* The tool loop is active after a page was visited, a reply that was a
\* further search has just been answered with the warning, and the model
\* is about to be called again.
C30_Witness ==
    /\ pc = "agent_call" /\ tool_loop_active
    /\ visited_articles > 0
    /\ messages[Len(messages)] = Msg("user", Content("meta_warning"))
    /\ detect_tool_use(assistant_reply) = "search"
    /\ Msg("assistant", assistant_reply) \notin Range(messages)

====
